---- MODULE Spec2Model ----
(***************************************************************************)
(* Portfolio option risk visualizer: Black-Scholes pricing, portfolio      *)
(* aggregation, stress test, what-if tuning, P&L attribution and the       *)
(* volatility-surface interpolator, as state machines over the React       *)
(* components' state.                                                       *)
(*                                                                         *)
(* Numbers.  A JavaScript number is modelled as a decimal fixed-point      *)
(* value: the integer n stands for n / SCALE.  Three further values stand  *)
(* for the IEEE-754 specials NaN, +Infinity and -Infinity, and the         *)
(* arithmetic operators below follow the IEEE rules for them (x/0, 0/0,    *)
(* Inf-Inf, 0*Inf, comparisons with NaN).  Zero is +0.  Every product and  *)
(* quotient is rounded to the nearest representable value, half away from  *)
(* zero; sums and differences of finite values are exact.                  *)
(***************************************************************************)
EXTENDS Integers, Sequences, FiniteSets, TLC

\* ------------------------------------------------------------------------
\* Numbers
\* ------------------------------------------------------------------------

\* n stands for the number n / SCALE
SCALE == 1000

NaN == 2147483647
PosInf == 2147483646
NegInf == -2147483646

IsNaN(x) == x = NaN
IsInf(x) == x = PosInf \/ x = NegInf
IsFinite(x) == ~IsNaN(x) /\ ~IsInf(x)

\* the number n (an integer literal of the source)
Num(n) == n * SCALE

\* the one element of a singleton set: The({e(x) : x \in {v}}) is e(x) with
\* x bound to the value of v, as a const declaration binds it
The(S) == CHOOSE x \in S : TRUE

IAbs[n \in Int] == IF n < 0 THEN -n ELSE n

\* n / d on integers, rounded to nearest, half away from zero (d # 0)
RDiv[n \in Int, d \in Int] ==
  LET q == (2 * IAbs[n] + IAbs[d]) \div (2 * IAbs[d])
  IN IF (n < 0) = (d < 0) THEN q ELSE -q

\* unary minus
Neg[x \in Int] == IF IsNaN(x) THEN NaN ELSE -x

\* a + b
Add[a \in Int, b \in Int] ==
  IF IsNaN(a) \/ IsNaN(b) THEN NaN
  ELSE IF IsInf(a) /\ IsInf(b) THEN (IF a = b THEN a ELSE NaN)
  ELSE IF IsInf(a) THEN a
  ELSE IF IsInf(b) THEN b
  ELSE a + b

\* a - b
Sub[a \in Int, b \in Int] == Add[a, Neg[b]]

\* a * b
Mul[a \in Int, b \in Int] ==
  IF IsNaN(a) \/ IsNaN(b) THEN NaN
  ELSE IF IsInf(a) \/ IsInf(b)
    THEN (IF a = 0 \/ b = 0 THEN NaN
          ELSE IF (a < 0) = (b < 0) THEN PosInf ELSE NegInf)
  ELSE RDiv[a * b, SCALE]

\* a / b
Div[a \in Int, b \in Int] ==
  IF IsNaN(a) \/ IsNaN(b) THEN NaN
  ELSE IF IsInf(a) /\ IsInf(b) THEN NaN
  ELSE IF IsInf(a) THEN (IF (a < 0) = (b < 0) THEN PosInf ELSE NegInf)
  ELSE IF IsInf(b) THEN 0
  ELSE IF b = 0
    THEN (IF a = 0 THEN NaN ELSE IF a > 0 THEN PosInf ELSE NegInf)
  ELSE RDiv[a * SCALE, b]

\* a > b and a <= b: false when either side is NaN
Gt[a \in Int, b \in Int] == ~IsNaN(a) /\ ~IsNaN(b) /\ a > b
Le[a \in Int, b \in Int] == ~IsNaN(a) /\ ~IsNaN(b) /\ a <= b

\* Math.abs
MathAbs[x \in Int] == IF IsNaN(x) THEN NaN ELSE IAbs[x]

\* Math.max(a, b)
MathMax[a \in Int, b \in Int] ==
  IF IsNaN(a) \/ IsNaN(b) THEN NaN ELSE IF a >= b THEN a ELSE b

\* floor of the square root of the integer n >= 0, by bisection on lo..hi
ISqrtIn[n \in Int, lo \in Int, hi \in Int] ==
  IF lo >= hi THEN lo
  ELSE IF ((lo + hi + 1) \div 2) * ((lo + hi + 1) \div 2) <= n
    THEN ISqrtIn[n, (lo + hi + 1) \div 2, hi]
    ELSE ISqrtIn[n, lo, ((lo + hi + 1) \div 2) - 1]

\* the largest integer whose square is a 32-bit integer
ISqrtBound == 46340

\* the nearer of r and r + 1 to the square root of n, r being its floor
ISqrtRound[n \in Int, r \in Int] ==
  IF (r + 1) * (r + 1) - n < n - r * r THEN r + 1 ELSE r

\* Math.sqrt
MathSqrt[x \in Int] ==
  IF IsNaN(x) THEN NaN
  ELSE IF x = PosInf THEN PosInf
  ELSE IF x < 0 THEN NaN
  ELSE ISqrtRound[x * SCALE, ISqrtIn[x * SCALE, 0, ISqrtBound]]

\* x^k / k! from x^(k-1) / (k-1)!
ExpTerm[prev \in Int, x \in Int, k \in Int] == RDiv[Mul[prev, x], k]

\* e^x for a finite x with |x| <= 1/2: its Taylor polynomial of degree 5,
\* summed from the term of degree k
ExpSmall[x \in Int, term \in Int, k \in Int] ==
  IF k > 5 THEN 0 ELSE term + ExpSmall[x, ExpTerm[term, x, k + 1], k + 1]

\* e^x for a finite x: e^x = (e^(x/2))^2 until |x| <= 1/2
Square[h \in Int] == Mul[h, h]
ExpFinite[x \in Int] ==
  IF IAbs[x] <= SCALE \div 2 THEN ExpSmall[x, Num(1), 0]
  ELSE Square[ExpFinite[RDiv[x, 2]]]

\* arguments beyond which e^x rounds to 0, or leaves the modelled range
ExpUnderflow == -8 * SCALE
ExpOverflow == 7 * SCALE

\* Math.exp
MathExp[x \in Int] ==
  IF IsNaN(x) THEN NaN
  ELSE IF x = PosInf THEN PosInf
  ELSE IF x = NegInf THEN 0
  ELSE IF x < ExpUnderflow THEN 0
  ELSE IF x > ExpOverflow THEN PosInf
  ELSE ExpFinite[x]

\* ln 2
LN2 == 693

\* 2 atanh z = 2 (z + z^3/3 + z^5/5 + z^7/7), summed from the term z^k / k
Atanh2[z \in Int, power \in Int, k \in Int] ==
  IF k > 7 THEN 0
  ELSE 2 * RDiv[power, k] + Atanh2[z, Mul[Mul[power, z], z], k + 2]

\* ln x for a finite x with 2/3 <= x <= 3/2: 2 atanh((x-1)/(x+1))
LnNear1[z \in Int] == Atanh2[z, z, 1]

\* ln x for a finite x > 0: ln x = ln(x/2) + ln 2 = ln(2x) - ln 2
LnFinite[x \in Int] ==
  IF 2 * x > 3 * SCALE THEN LnFinite[RDiv[x, 2]] + LN2
  ELSE IF 3 * x < 2 * SCALE THEN LnFinite[2 * x] - LN2
  ELSE LnNear1[Div[x - Num(1), x + Num(1)]]

\* Math.log
MathLog[x \in Int] ==
  IF IsNaN(x) THEN NaN
  ELSE IF x = PosInf THEN PosInf
  ELSE IF x < 0 THEN NaN
  ELSE IF x = 0 THEN NegInf
  ELSE LnFinite[x]

\* ------------------------------------------------------------------------
\* lib/utils/blackScholes.ts: pricing engine
\* ------------------------------------------------------------------------

\* p of normalCDF, from t and d
normalCDFp[t \in Int, d \in Int] ==
  Mul[Mul[d, t],
      Add[319, Mul[t, Add[-357, Mul[t, Add[1781,
        Mul[t, Add[-1821, Mul[t, 1330]]]]]]]]]

\* Standard normal cumulative distribution function
normalCDF[x \in Int] ==
  IF Gt[x, 0]
    THEN Sub[Num(1),
             normalCDFp[Div[Num(1), Add[Num(1), Mul[232, MathAbs[x]]]],
                        Mul[399, MathExp[Div[Mul[Neg[x], x], Num(2)]]]]]
    ELSE normalCDFp[Div[Num(1), Add[Num(1), Mul[232, MathAbs[x]]]],
                    Mul[399, MathExp[Div[Mul[Neg[x], x], Num(2)]]]]

\* Standard normal probability density function
normalPDF[x \in Int] ==
  Div[MathExp[Mul[Mul[-500, x], x]], MathSqrt[Mul[Num(2), 3142]]]

\* d2 from d1
calculateD2[d1 \in Int, T \in Int, sigma \in Int] ==
  <<d1, Sub[d1, Mul[sigma, MathSqrt[T]]]>>

\* d1 and d2, as the pair <<d1, d2>>
calculateD1D2[S \in Int, K \in Int, T \in Int, r \in Int, sigma \in Int] ==
  calculateD2[Div[Add[MathLog[Div[S, K]],
                      Mul[Add[r, Div[Mul[sigma, sigma], Num(2)]], T]],
                  Mul[sigma, MathSqrt[T]]],
              T, sigma]

\* the return statement of calculateOptionPrice
optionPriceOf(option, d, discountFactor) ==
  LET S == option.spotPrice
      K == option.strikePrice
  IN IF option.type = "Call"
       THEN Sub[Mul[S, normalCDF[d[1]]],
                Mul[Mul[K, discountFactor], normalCDF[d[2]]]]
       ELSE Sub[Mul[Mul[K, discountFactor], normalCDF[Neg[d[2]]]],
                Mul[S, normalCDF[Neg[d[1]]]]]

\* Option price by the Black-Scholes formula
calculateOptionPrice(option) ==
  The({ optionPriceOf(option, d, discountFactor) :
          d \in {calculateD1D2[option.spotPrice, option.strikePrice,
                               option.timeToExpiry, option.riskFreeRate,
                               option.volatility]},
          discountFactor \in
            {MathExp[Mul[Neg[option.riskFreeRate], option.timeToExpiry]]} })

\* the five Greeks of calculateGreeks
greeksOf_deltaUnsigned(option, d, discountFactor, sign, pdf) ==
  LET S == option.spotPrice
      K == option.strikePrice
      T == option.timeToExpiry
      r == option.riskFreeRate
      sigma == option.volatility
  IN [delta |-> normalCDF[Mul[sign, d[1]]],
      gamma |-> Div[pdf, Mul[Mul[S, sigma], MathSqrt[T]]],
      theta |-> Sub[Div[Mul[Mul[Neg[S], sigma], pdf],
                        Mul[Num(2), MathSqrt[T]]],
                    Mul[Mul[Mul[Mul[sign, r], K], discountFactor],
                        normalCDF[Mul[sign, d[2]]]]],
      vega |-> Mul[Mul[S, MathSqrt[T]], pdf],
      rho |-> Mul[Mul[Mul[Mul[sign, K], T], discountFactor],
                  normalCDF[Mul[sign, d[2]]]]]

greeksOf(option, d, discountFactor, sign, pdf) ==
  LET S == option.spotPrice
      K == option.strikePrice
      T == option.timeToExpiry
      r == option.riskFreeRate
      sigma == option.volatility
  IN [delta |-> Mul[sign, normalCDF[Mul[sign, d[1]]]],
      gamma |-> Div[pdf, Mul[Mul[S, sigma], MathSqrt[T]]],
      theta |-> Sub[Div[Mul[Mul[Neg[S], sigma], pdf],
                        Mul[Num(2), MathSqrt[T]]],
                    Mul[Mul[Mul[Mul[sign, r], K], discountFactor],
                        normalCDF[Mul[sign, d[2]]]]],
      vega |-> Mul[Mul[S, MathSqrt[T]], pdf],
      rho |-> Mul[Mul[Mul[Mul[sign, K], T], discountFactor],
                  normalCDF[Mul[sign, d[2]]]]]

\* Option Greeks
calculateGreeks(option) ==
  The({ greeksOf(option, d, discountFactor,
                 IF option.type = "Call" THEN Num(1) ELSE Num(-1),
                 normalPDF[d[1]]) :
          d \in {calculateD1D2[option.spotPrice, option.strikePrice,
                               option.timeToExpiry, option.riskFreeRate,
                               option.volatility]},
          discountFactor \in
            {MathExp[Mul[Neg[option.riskFreeRate], option.timeToExpiry]]} })

\* { ...option, <the fields of extra> }: an object spread followed by fields
Spread(option, extra) ==
  [f \in (DOMAIN option) \cup (DOMAIN extra) |->
     IF f \in DOMAIN extra THEN extra[f] ELSE option[f]]

\* Full option metrics
calculateOptionMetrics(option) ==
  The({ Spread(o, [price |-> price, greeks |-> greeks,
                   totalValue |-> Mul[price, o.quantity]]) :
          o \in {option},
          price \in {calculateOptionPrice(option)},
          greeks \in {calculateGreeks(option)} })

\* optionMetrics.reduce((sum, opt) => sum + opt.totalValue, 0), from index i
RECURSIVE reduceTotalValue(_, _)
reduceTotalValue(optionMetrics, n) ==
  IF n = 0 THEN 0
  ELSE Add[reduceTotalValue(optionMetrics, n - 1), optionMetrics[n].totalValue]

\* aggregateGreeks[greek] after the forEach over the first n positions
RECURSIVE forEachAggregate(_, _, _)
forEachAggregate(optionMetrics, n, greek) ==
  IF n = 0 THEN 0
  ELSE Add[forEachAggregate(optionMetrics, n - 1, greek),
           Mul[optionMetrics[n].greeks[greek], optionMetrics[n].quantity]]

\* the keys of the aggregateGreeks object literal
aggregateGreeksKeys == {"delta", "gamma", "theta", "vega", "rho"}

\* the portfolio calculatePortfolioMetrics returns, from its optionMetrics
portfolioOf_rhoNotSummed(optionMetrics) ==
  [options |-> optionMetrics,
   totalValue |-> reduceTotalValue(optionMetrics, Len(optionMetrics)),
   aggregateGreeks |->
     [greek \in aggregateGreeksKeys |->
        IF greek = "rho" THEN 0
        ELSE forEachAggregate(optionMetrics, Len(optionMetrics), greek)]]

portfolioOf_averaged(optionMetrics) ==
  [options |-> optionMetrics,
   totalValue |->
     Div[reduceTotalValue(optionMetrics, Len(optionMetrics)),
         Num(Len(optionMetrics))],
   aggregateGreeks |->
     [greek \in aggregateGreeksKeys |->
        forEachAggregate(optionMetrics, Len(optionMetrics), greek)]]

portfolioOf(optionMetrics) ==
  [options |-> optionMetrics,
   totalValue |-> reduceTotalValue(optionMetrics, Len(optionMetrics)),
   aggregateGreeks |->
     [greek \in aggregateGreeksKeys |->
        forEachAggregate(optionMetrics, Len(optionMetrics), greek)]]

\* Aggregate portfolio metrics
calculatePortfolioMetrics_reversed(options) ==
  The({ portfolioOf(optionMetrics) :
          optionMetrics \in
            { [i \in 1..Len(os) |->
                 calculateOptionMetrics(os[Len(os) + 1 - i])] :
                os \in {options} } })

calculatePortfolioMetrics(options) ==
  The({ portfolioOf(optionMetrics) :
          optionMetrics \in
            { [i \in 1..Len(os) |-> calculateOptionMetrics(os[i])] :
                os \in {options} } })

\* ------------------------------------------------------------------------
\* Optional values: null is the empty sequence, a value v is <<v>>
\* ------------------------------------------------------------------------

Null == <<>>
Some(v) == <<v>>
Val(o) == o[1]

\* ------------------------------------------------------------------------
\* State
\* ------------------------------------------------------------------------

VARIABLES
  portfolio,          \* Home: the loaded portfolio, or null
  whatIfPortfolio,    \* Home: the what-if portfolio, or null
  stressTestResults,  \* Home: the last stress test's results, or null
  stressParams,       \* StressTest: the three shocks
  stressedPortfolio,  \* StressTest: the stressed portfolio, or null
  params,             \* WhatIfPanel: the three tuning sliders
  timer,              \* WhatIfPanel: the pending timeout's closure, or null
  debounceTimeout,    \* WhatIfPanel: the last effect's timeout handle, or null
  timeouts,           \* the timeouts set and neither fired nor cleared
  pnlProps,           \* PnLAttribution: portfolio, previousPortfolio, timeElapsed
  pnlAttribution,     \* PnLAttribution: the memoised attribution, or null
  volData,            \* VolatilitySurface: the rows onDrop last parsed, or null
  surfaceData,        \* VolatilitySurface: the built grid, or null
  volQuery,           \* VolatilitySurface: the interpolator's last call, or null
  volResult,          \* VolatilitySurface: what that call returned, or null
  gsvProps,           \* GreeksSurfaceViewer: portfolio, selectedGreek, or null
  greekSurfaceData,   \* GreeksSurfaceViewer: surfaceData, or null
  viewMode,           \* GreeksSurfaceViewer: viewSettings.viewMode
  quote,              \* pricing engine: the last call and put priced, or null
  cdfCalls,           \* pricing engine: the last two calls of normalCDF
  greeksCall,         \* pricing engine: the last call of calculateGreeks
  uploadError,        \* FileUpload: error, or null
  loading,            \* FileUpload: loading
  drops,              \* FileUpload: the drops whose parse has not settled
  settled,            \* FileUpload: the drop handled last and its outcome
  inputs,             \* BlackScholesSimulator: inputs
  outputs,            \* BlackScholesSimulator: outputs, or null
  simCall             \* BlackScholesSimulator: the last input change, or null

homeVars == <<portfolio, whatIfPortfolio, stressTestResults, stressParams,
              stressedPortfolio, params, timer, debounceTimeout, timeouts>>
pnlVars == <<pnlProps, pnlAttribution>>
volVars == <<volData, surfaceData, volQuery, volResult>>
gsvVars == <<gsvProps, greekSurfaceData, viewMode>>
engineVars == <<quote, cdfCalls, greeksCall>>
uploadVars == <<uploadError, loading, drops, settled>>
simVars == <<inputs, outputs, simCall>>
vars == <<homeVars, pnlVars, volVars, gsvVars, engineVars, uploadVars, simVars>>

\* ------------------------------------------------------------------------
\* Inputs
\* ------------------------------------------------------------------------

\* most positions in an uploaded file
MaxPositions == 2

\* Records that pass the upload validation (every numeric field positive):
\* a short-dated in-the-money call and a one-year at-the-money put
Contracts ==
  { [ticker |-> "AAPL", type |-> "Call", spotPrice |-> Num(110),
     strikePrice |-> Num(100), timeToExpiry |-> 50, volatility |-> 200,
     riskFreeRate |-> 50, quantity |-> Num(2)],
    [ticker |-> "MSFT", type |-> "Put", spotPrice |-> Num(100),
     strikePrice |-> Num(100), timeToExpiry |-> Num(1), volatility |-> 250,
     riskFreeRate |-> 50, quantity |-> Num(3)] }

ContractLists == UNION { [1..n -> Contracts] : n \in 0..MaxPositions }

\* slider positions of the what-if panel
TuningValues ==
  [volatilityMultiplier |-> {Num(1), 1500},
   timeDecayDays |-> {0, Num(30)},
   rateShift |-> {0, Num(5)}]

\* values typed into the stress test's inputs (after parseFloat(value) || 0)
StressValues ==
  [spotPriceChange |-> {0, Num(10)},
   volatilityChange |-> {0, Num(-20)},
   rateChange |-> {0, Num(1)}]

\* ------------------------------------------------------------------------
\* components/StressTest.tsx
\* ------------------------------------------------------------------------

StressParamsInit ==
  [spotPriceChange |-> 0, volatilityChange |-> 0, rateChange |-> 0]

\* the map callback of runStressTest
stressOption_shockAsFactor(option, sp) ==
  Spread(option,
    [spotPrice |-> Mul[option.spotPrice, Div[sp.spotPriceChange, Num(100)]],
     volatility |->
       Mul[option.volatility, Div[sp.volatilityChange, Num(100)]],
     riskFreeRate |->
       Add[option.riskFreeRate, Div[sp.rateChange, Num(100)]]])

stressOption_rateInPercent(option, sp) ==
  Spread(option,
    [spotPrice |->
       Mul[option.spotPrice, Add[Num(1), Div[sp.spotPriceChange, Num(100)]]],
     volatility |->
       Mul[option.volatility, Add[Num(1), Div[sp.volatilityChange, Num(100)]]],
     riskFreeRate |-> Add[option.riskFreeRate, sp.rateChange]])

stressOption(option, sp) ==
  Spread(option,
    [spotPrice |->
       Mul[option.spotPrice, Add[Num(1), Div[sp.spotPriceChange, Num(100)]]],
     volatility |->
       Mul[option.volatility, Add[Num(1), Div[sp.volatilityChange, Num(100)]]],
     riskFreeRate |->
       Add[option.riskFreeRate, Div[sp.rateChange, Num(100)]]])

\* portfolio.options.map(...) of runStressTest
stressedOptions(p, sp) ==
  [i \in 1..Len(p.options) |-> stressOption(p.options[i], sp)]

\* ------------------------------------------------------------------------
\* components/WhatIfPanel.tsx
\* ------------------------------------------------------------------------

TuningParamsInit ==
  [volatilityMultiplier |-> Num(1), timeDecayDays |-> 0, rateShift |-> 0]

\* the map callback of the debounced recalculation
adjustOption_noFloor(option, tp) ==
  Spread(option,
    [volatility |-> Mul[option.volatility, tp.volatilityMultiplier],
     timeToExpiry |->
       Sub[option.timeToExpiry, Div[tp.timeDecayDays, Num(365)]],
     riskFreeRate |-> Add[option.riskFreeRate, Div[tp.rateShift, Num(100)]]])

adjustOption(option, tp) ==
  Spread(option,
    [volatility |-> Mul[option.volatility, tp.volatilityMultiplier],
     timeToExpiry |->
       MathMax[0, Sub[option.timeToExpiry, Div[tp.timeDecayDays, Num(365)]]],
     riskFreeRate |-> Add[option.riskFreeRate, Div[tp.rateShift, Num(100)]]])

\* portfolio.options.map(...) of the debounced recalculation
adjustedOptions(p, tp) ==
  [i \in 1..Len(p.options) |-> adjustOption(p.options[i], tp)]

\* what the effect's setTimeout callback closes over
Closure(tp, p) == [params |-> tp, portfolio |-> p]

\* clearTimeout(handle) on the pending timeouts: nothing for null and for the
\* handle of a timeout that has fired
clearTimeout(pending, handle) ==
  IF handle = Null THEN pending
  ELSE { timeout \in pending : timeout.id # Val(handle) }

\* the handle setTimeout returns: one no pending timeout has
setTimeout(pending) ==
  CHOOSE id \in 1..(Cardinality(pending) + 1) :
    /\ \A timeout \in pending : timeout.id # id
    /\ \A less \in 1..(id - 1) : \E timeout \in pending : timeout.id = less

\* the effect of WhatIfPanel run without clearing the timeout before
debouncedRecalculation_noCleanup(pending, handle, closure) ==
  /\ timeouts' = pending \cup {[id |-> setTimeout(pending), closure |-> closure]}
  /\ debounceTimeout' = Some(setTimeout(pending))
  /\ timer' = Some(closure)

\* The effect of WhatIfPanel, run on mount and when params, portfolio or
\* onPortfolioChange has changed: the timeout of the run before is cleared
\* (by that run's cleanup and as debounceTimeout), a timeout is set for the
\* closure and its handle kept.  pending are the timeouts before the run and
\* handle is that of the run before.
debouncedRecalculation(pending, handle, closure) ==
  /\ timeouts' =
       clearTimeout(pending, handle)
         \cup {[id |-> setTimeout(clearTimeout(pending, handle)),
                closure |-> closure]}
  /\ debounceTimeout' = Some(setTimeout(clearTimeout(pending, handle)))
  /\ timer' = Some(closure)

\* ------------------------------------------------------------------------
\* The Home page (with StressTest and WhatIfPanel mounted while a portfolio
\* is loaded)
\* ------------------------------------------------------------------------

HomeInit ==
  /\ portfolio = Null
  /\ whatIfPortfolio = Null
  /\ stressTestResults = Null
  /\ stressParams = StressParamsInit
  /\ stressedPortfolio = Null
  /\ params = TuningParamsInit
  /\ timer = Null
  /\ debounceTimeout = Null
  /\ timeouts = {}

\* handlePortfolioLoad without its setWhatIfPortfolio(null)
handlePortfolioLoad_keepWhatIf(options) ==
  /\ portfolio' = Some(calculatePortfolioMetrics(options))
  /\ whatIfPortfolio' = whatIfPortfolio
  /\ stressTestResults' = Null
  /\ stressParams' =
       IF portfolio = Null THEN StressParamsInit ELSE stressParams
  /\ stressedPortfolio' =
       IF portfolio = Null THEN Null ELSE stressedPortfolio
  /\ params' = IF portfolio = Null THEN TuningParamsInit ELSE params
  /\ debouncedRecalculation(
       timeouts, IF portfolio = Null THEN Null ELSE debounceTimeout,
       Closure(params', Val(portfolio')))
  /\ UNCHANGED <<pnlVars, volVars, gsvVars, engineVars, simVars>>

\* Home.handlePortfolioLoad.  Called while no portfolio is shown, the panels
\* mount with their initial state; called while one is shown (by a drop made
\* before it was loaded), they stay mounted and keep theirs.  Either way
\* WhatIfPanel's effect schedules a timeout for the new portfolio.  What
\* becomes of FileUpload is the caller's part.
handlePortfolioLoad(options) ==
  /\ portfolio' = Some(calculatePortfolioMetrics(options))
  /\ whatIfPortfolio' = Null
  /\ stressTestResults' = Null
  /\ stressParams' =
       IF portfolio = Null THEN StressParamsInit ELSE stressParams
  /\ stressedPortfolio' =
       IF portfolio = Null THEN Null ELSE stressedPortfolio
  /\ params' = IF portfolio = Null THEN TuningParamsInit ELSE params
  /\ debouncedRecalculation(
       timeouts, IF portfolio = Null THEN Null ELSE debounceTimeout,
       Closure(params', Val(portfolio')))
  /\ UNCHANGED <<pnlVars, volVars, gsvVars, engineVars, simVars>>

\* a file of valid records dropped on FileUpload, which is shown while no
\* portfolio is, and parsed at once
loadPortfolio(options) ==
  /\ portfolio = Null
  /\ handlePortfolioLoad(options)
  /\ UNCHANGED uploadVars

\* "Upload New Portfolio": setPortfolio(null); the panels unmount and the
\* effect's cleanup clears the timeout
uploadNewPortfolio ==
  /\ portfolio # Null
  /\ portfolio' = Null
  /\ timer' = Null
  /\ debounceTimeout' = Null
  /\ timeouts' = clearTimeout(timeouts, debounceTimeout)
  /\ stressParams' = StressParamsInit
  /\ stressedPortfolio' = Null
  /\ params' = TuningParamsInit
  /\ UNCHANGED <<whatIfPortfolio, stressTestResults, pnlVars, volVars, gsvVars,
               engineVars, uploadVars, simVars>>

\* StressTest.handleParamChange: only StressTest renders again
stressHandleParamChange(param, value) ==
  /\ portfolio # Null
  /\ stressParams' = [stressParams EXCEPT ![param] = value]
  /\ UNCHANGED <<portfolio, whatIfPortfolio, stressTestResults,
                 stressedPortfolio, params, timer, debounceTimeout, timeouts,
                 pnlVars, volVars, gsvVars,
               engineVars, uploadVars, simVars>>

\* the portfolio prop of StressTest: whatIfPortfolio || portfolio
stressSource == IF whatIfPortfolio # Null THEN Val(whatIfPortfolio)
                ELSE Val(portfolio)

\* StressTest.runStressTest and Home.handleStressTestComplete; Home renders
\* again with a new onPortfolioChange, so WhatIfPanel's effect runs again
runStressTest_inPlace ==
  /\ portfolio # Null
  /\ stressedPortfolio' =
       Some(calculatePortfolioMetrics(
              stressedOptions(stressSource, stressParams)))
  /\ stressTestResults' =
       Some(Spread(stressParams,
                   [stressedPortfolio |-> Val(stressedPortfolio')]))
  /\ portfolio' = stressedPortfolio'
  /\ debouncedRecalculation(timeouts, debounceTimeout,
                            Closure(params, Val(portfolio')))
  /\ UNCHANGED <<whatIfPortfolio, stressParams, params, pnlVars, volVars, gsvVars,
               engineVars, uploadVars, simVars>>

runStressTest ==
  /\ portfolio # Null
  /\ stressedPortfolio' =
       Some(calculatePortfolioMetrics(
              stressedOptions(stressSource, stressParams)))
  /\ stressTestResults' =
       Some(Spread(stressParams,
                   [stressedPortfolio |-> Val(stressedPortfolio')]))
  /\ debouncedRecalculation(timeouts, debounceTimeout,
                            Closure(params, Val(portfolio)))
  /\ UNCHANGED <<portfolio, whatIfPortfolio, stressParams, params, pnlVars,
                 volVars, gsvVars,
               engineVars, uploadVars, simVars>>

\* WhatIfPanel.handleParamChange; the effect cancels the pending timeout and
\* schedules a new one
whatIfHandleParamChange(param, value) ==
  /\ portfolio # Null
  /\ params' = [params EXCEPT ![param] = value]
  /\ debouncedRecalculation(timeouts, debounceTimeout,
                            Closure(params', Val(portfolio)))
  /\ UNCHANGED <<portfolio, whatIfPortfolio, stressTestResults, stressParams,
                 stressedPortfolio, pnlVars, volVars, gsvVars,
               engineVars, uploadVars, simVars>>

\* the timeout as it would fire were WhatIfPanel given whatIfPortfolio ||
\* portfolio, as the other panels are
timeoutFires_compounding(timeout) ==
  /\ whatIfPortfolio' =
       Some(calculatePortfolioMetrics(
              adjustedOptions(timeout.closure.portfolio,
                              timeout.closure.params)))
  /\ IF portfolio = Null
       THEN /\ timeouts' = timeouts \ {timeout}
            /\ UNCHANGED <<timer, debounceTimeout>>
       ELSE debouncedRecalculation(timeouts \ {timeout}, debounceTimeout,
                                   Closure(params, Val(whatIfPortfolio')))

\* a pending timeout fires: recalculation, onPortfolioChange =
\* handleWhatIfChange; Home renders again with a new onPortfolioChange, so
\* the effect of a WhatIfPanel that is mounted runs again
timeoutFires(timeout) ==
  /\ whatIfPortfolio' =
       Some(calculatePortfolioMetrics(
              adjustedOptions(timeout.closure.portfolio,
                              timeout.closure.params)))
  /\ IF portfolio = Null
       THEN /\ timeouts' = timeouts \ {timeout}
            /\ UNCHANGED <<timer, debounceTimeout>>
       ELSE debouncedRecalculation(timeouts \ {timeout}, debounceTimeout,
                                   Closure(params, Val(portfolio)))

whatIfTimeout ==
  /\ \E timeout \in timeouts : timeoutFires(timeout)
  /\ UNCHANGED <<portfolio, stressTestResults, stressParams,
                 stressedPortfolio, params, pnlVars, volVars, gsvVars,
               engineVars, uploadVars, simVars>>

\* ------------------------------------------------------------------------
\* lib/utils/fileParser.ts
\* ------------------------------------------------------------------------

\* Values of the fields of a parsed row (what Papa.parse with dynamicTyping
\* or JSON.parse produced): undefined, a string, a number
RawUndefined == [t |-> "undefined", s |-> "", n |-> 0]
RawString(s) == [t |-> "string", s |-> s, n |-> 0]
RawNumber(n) == [t |-> "number", s |-> "", n |-> n]

requiredFields ==
  <<"ticker", "type", "spotPrice", "strikePrice", "timeToExpiry",
    "volatility", "riskFreeRate", "quantity">>

numericFields ==
  <<"spotPrice", "strikePrice", "timeToExpiry", "volatility",
    "riskFreeRate", "quantity">>

\* the first index of fields whose field is among failing, 0 if none is:
\* the loop throws at the first field that fails
firstFailing(fields, failing) ==
  IF \A i \in DOMAIN fields : fields[i] \notin failing THEN 0
  ELSE CHOOSE i \in DOMAIN fields :
         fields[i] \in failing /\ \A j \in 1..(i - 1) : fields[j] \notin failing

\* typeof value !== 'number' || isNaN(value) || value <= 0
notPositiveNumber(field, value) ==
  \/ value.t # "number"
  \/ IsNaN(value.n)
  \/ Le[value.n, 0]

\* validateOption: null when it returns true, else the message of the
\* ValidationError it throws
validateOption(option) ==
  LET missing ==
        firstFailing(requiredFields,
                     { f \in DOMAIN option : option[f] = RawUndefined })
      notPositive ==
        firstFailing(numericFields,
                     { f \in DOMAIN option \ {"ticker", "type"} :
                         notPositiveNumber(f, option[f]) })
  IN IF missing # 0
       THEN Some(<<"Missing required field", requiredFields[missing]>>)
     ELSE IF option.type # RawString("Call") /\ option.type # RawString("Put")
       THEN Some(<<"Option type must be either Call or Put", "type">>)
     ELSE IF notPositive # 0
       THEN Some(<<"must be a positive number", numericFields[notPositive]>>)
     ELSE Null

\* the Partial<Option> built from a row: an absent key reads as undefined
partialOption(row) ==
  [f \in {requiredFields[i] : i \in DOMAIN requiredFields} |->
     IF f \in DOMAIN row THEN row[f] ELSE RawUndefined]

\* a validated option as the contract the pricing engine reads
asOption(option) ==
  [ticker |-> option.ticker.s, type |-> option.type.s,
   spotPrice |-> option.spotPrice.n, strikePrice |-> option.strikePrice.n,
   timeToExpiry |-> option.timeToExpiry.n,
   volatility |-> option.volatility.n,
   riskFreeRate |-> option.riskFreeRate.n, quantity |-> option.quantity.n]

\* rows.filter(row => Object.keys(row).length > 0)
nonEmptyRows(rows) == SelectSeq(rows, LAMBDA row : DOMAIN row # {})

\* .filter(...).map(...) of parseCSV and parseJSON: the options, or the
\* first ValidationError thrown
parseRecords_skipInvalid(rows) ==
  LET kept == SelectSeq(nonEmptyRows(rows),
                LAMBDA row : validateOption(partialOption(row)) = Null)
  IN [ok |-> TRUE, message |-> Null,
      options |-> [i \in 1..Len(kept) |-> asOption(partialOption(kept[i]))]]

parseRecords(rows) ==
  LET kept == nonEmptyRows(rows)
      bad == firstFailing(kept,
               { kept[i] : i \in { k \in DOMAIN kept :
                   validateOption(partialOption(kept[k])) # Null } })
  IN IF bad # 0
       THEN [ok |-> FALSE,
             message |-> validateOption(partialOption(kept[bad])),
             options |-> <<>>]
       ELSE [ok |-> TRUE, message |-> Null,
             options |->
               [i \in 1..Len(kept) |-> asOption(partialOption(kept[i]))]]

\* parseCSV: Papa.parse calls complete with the rows, or error
parseCSV(file) ==
  IF file.content.kind = "rows" THEN parseRecords(file.content.rows)
  ELSE [ok |-> FALSE, message |-> Some(<<"CSV parsing error", "">>),
        options |-> <<>>]

\* parseJSON: JSON.parse throws, or gives something that is not an array,
\* or gives the array of rows
parseJSON(file) ==
  IF file.content.kind = "malformed"
    THEN [ok |-> FALSE, message |-> Some(<<"JSON parsing error", "">>),
          options |-> <<>>]
  ELSE IF file.content.kind # "rows"
    THEN [ok |-> FALSE,
          message |-> Some(<<"JSON must contain an array of options", "">>),
          options |-> <<>>]
  ELSE parseRecords(file.content.rows)

\* ------------------------------------------------------------------------
\* components/FileUpload.tsx
\* ------------------------------------------------------------------------

\* most drops whose parse is pending at one time
MaxDrops == 1

\* a contract as the row of a file
asRow(contract) ==
  [f \in DOMAIN contract |->
     IF f \in {"ticker", "type"} THEN RawString(contract[f])
     ELSE RawNumber(contract[f])]

\* Rows of CSV files: the first valid contract; that contract with its rate
\* 0; and the empty row
UploadRows ==
  UNION { { asRow(c),
            [asRow(c) EXCEPT !.riskFreeRate = RawNumber(0)],
            <<>> } : c \in { d \in Contracts : d.ticker = "AAPL" } }

\* Rows of JSON files: the second valid contract, and that contract short,
\* with its volatility a string and with no strike
UploadItems ==
  UNION { { asRow(c),
            [asRow(c) EXCEPT !.quantity = RawNumber(Num(-2))],
            [asRow(c) EXCEPT !.volatility = RawString("0.2")],
            [f \in DOMAIN c \ {"strikePrice"} |-> asRow(c)[f]] } :
          c \in { d \in Contracts : d.ticker = "MSFT" } }

\* Dropped files: CSV files of up to two rows, JSON files of one row, not
\* holding an array and not JSON at all, an unreadable CSV file and a file
\* of another extension
UploadFiles ==
  { [name |-> [base |-> "portfolio", ext |-> ".csv"],
     content |-> [kind |-> "rows", rows |-> rows]] :
      rows \in UNION { [1..n -> UploadRows] : n \in 0..2 } }
  \cup
  { [name |-> [base |-> "portfolio", ext |-> ".json"],
     content |-> [kind |-> "rows", rows |-> <<row>>]] : row \in UploadItems }
  \cup
  { [name |-> [base |-> "portfolio", ext |-> ".json"],
     content |-> [kind |-> kind, rows |-> <<>>]] :
      kind \in {"notArray", "malformed"} }
  \cup
  { [name |-> [base |-> "portfolio", ext |-> ".csv"],
     content |-> [kind |-> "unreadable", rows |-> <<>>]],
    [name |-> [base |-> "portfolio", ext |-> ".txt"],
     content |-> [kind |-> "rows", rows |-> <<>>]] }

\* file.name.endsWith(suffix)
endsWith(name, suffix) == name.ext = suffix

\* the parse onDrop awaits
parseFile(file) ==
  IF endsWith(file.name, ".csv") THEN parseCSV(file) ELSE parseJSON(file)

UploadInit ==
  /\ uploadError = Null
  /\ loading = FALSE
  /\ drops = <<>>
  /\ settled = Null

\* FileUpload.onDrop up to its await: loading is set and the parse begun;
\* for a name of neither extension the throw, the catch and the finally
\* follow at once.  FileUpload is shown while no portfolio is.
fileUploadOnDrop(file) ==
  /\ portfolio = Null
  /\ Len(drops) < MaxDrops
  /\ IF endsWith(file.name, ".csv") \/ endsWith(file.name, ".json")
       THEN /\ loading' = TRUE
            /\ uploadError' = Null
            /\ drops' = Append(drops, [file |-> file, live |-> TRUE])
            /\ UNCHANGED settled
       ELSE /\ loading' = FALSE
            /\ uploadError' = Some(<<"Unsupported file format", "">>)
            /\ settled' = Some([file |-> file, called |-> Null])
            /\ UNCHANGED drops
  /\ UNCHANGED <<homeVars, pnlVars, volVars, gsvVars, engineVars, simVars>>

\* drops without the i-th
withoutDrop(i) ==
  [j \in 1..(Len(drops) - 1) |-> IF j < i THEN drops[j] ELSE drops[j + 1]]

\* FileUpload.onDrop from its await on, the parse of the i-th pending drop
\* having settled: onPortfolioLoad(options), after which Home shows the
\* panels in place of FileUpload, whose state is gone and whose pending
\* drops are those of a component no longer there; or setError(message).
\* setLoading(false) follows in both cases.  The setters of a component no
\* longer there do nothing.
dropSettles(i) ==
  /\ i \in DOMAIN drops
  /\ IF parseFile(drops[i].file).ok
       THEN /\ handlePortfolioLoad(parseFile(drops[i].file).options)
            /\ uploadError' = Null
            /\ loading' = FALSE
            /\ drops' = [j \in DOMAIN withoutDrop(i) |->
                           [withoutDrop(i)[j] EXCEPT !.live = FALSE]]
            /\ settled' =
                 Some([file |-> drops[i].file,
                       called |-> Some(parseFile(drops[i].file).options)])
       ELSE /\ uploadError' =
                 IF drops[i].live THEN parseFile(drops[i].file).message
                 ELSE uploadError
            /\ loading' = IF drops[i].live THEN FALSE ELSE loading
            /\ drops' = withoutDrop(i)
            /\ settled' = Some([file |-> drops[i].file, called |-> Null])
            /\ UNCHANGED <<homeVars, pnlVars, volVars, gsvVars, engineVars,
                           simVars>>

\* ------------------------------------------------------------------------
\* components/PnLAttribution.tsx
\* ------------------------------------------------------------------------

\* elapsed days passed as timeElapsed
ElapsedDays == {Num(1), Num(30)}

\* Portfolios handed to PnLAttribution: what Home holds as portfolio and,
\* for the portfolios of one or two positions, as whatIfPortfolio (after 30
\* days of decay) and as the stressed portfolio (spot +10%, volatility -20%,
\* rate +1)
PnLPortfolios ==
  { calculatePortfolioMetrics(l) : l \in ContractLists }
  \cup
  { calculatePortfolioMetrics(
      adjustedOptions(calculatePortfolioMetrics(l),
                      [TuningParamsInit EXCEPT !.timeDecayDays = Num(30)])) :
      l \in { c \in ContractLists : Len(c) \in 1..2 } }
  \cup
  { calculatePortfolioMetrics(
      stressedOptions(calculatePortfolioMetrics(l),
                      [spotPriceChange |-> Num(10),
                       volatilityChange |-> Num(-20),
                       rateChange |-> Num(1)])) :
      l \in { c \in ContractLists : Len(c) \in 1..2 } }

positionPnL_currentGreeks(currentOption, prevOption, timeElapsed, spotChange, volChange, rateChange) ==
  [delta |-> Mul[Mul[currentOption.greeks.delta, spotChange],
                 currentOption.quantity],
   theta |-> Mul[Mul[currentOption.greeks.theta, Div[timeElapsed, Num(365)]],
                 currentOption.quantity],
   vega |-> Mul[Mul[currentOption.greeks.vega, volChange],
                currentOption.quantity],
   rho |-> Mul[Mul[currentOption.greeks.rho, rateChange],
               currentOption.quantity],
   gamma |-> Mul[Mul[Mul[Mul[500, currentOption.greeks.gamma], spotChange],
                     spotChange],
                 currentOption.quantity]]

positionPnL(currentOption, prevOption, timeElapsed, spotChange, volChange, rateChange) ==
  [delta |-> Mul[Mul[prevOption.greeks.delta, spotChange],
                 currentOption.quantity],
   theta |-> Mul[Mul[prevOption.greeks.theta, Div[timeElapsed, Num(365)]],
                 currentOption.quantity],
   vega |-> Mul[Mul[prevOption.greeks.vega, volChange],
                currentOption.quantity],
   rho |-> Mul[Mul[prevOption.greeks.rho, rateChange],
               currentOption.quantity],
   gamma |-> Mul[Mul[Mul[Mul[500, prevOption.greeks.gamma], spotChange],
                     spotChange],
                 currentOption.quantity]]

\* attribution[greek] after the forEach over the first n positions of the
\* current portfolio; a position without a previous one is skipped
RECURSIVE forEachOption(_, _, _, _, _)
forEachOption(current, previous, timeElapsed, n, greek) ==
  IF n = 0 THEN 0
  ELSE IF n > Len(previous.options)
    THEN forEachOption(current, previous, timeElapsed, n - 1, greek)
  ELSE
    Add[forEachOption(current, previous, timeElapsed, n - 1, greek),
        positionPnL(current.options[n], previous.options[n], timeElapsed,
          Sub[current.options[n].spotPrice, previous.options[n].spotPrice],
          Sub[current.options[n].volatility, previous.options[n].volatility],
          Sub[current.options[n].riskFreeRate,
              previous.options[n].riskFreeRate])[greek]]

\* the attribution with its unexplained part
withUnexplained(a) ==
  [a EXCEPT
     !.unexplained =
       Sub[a.total,
           Add[Add[Add[Add[a.delta, a.gamma], a.theta], a.vega], a.rho]]]

\* the useMemo callback: null without a previous portfolio
computePnlAttribution(props) ==
  IF props.previousPortfolio = Null THEN Null
  ELSE
    Some(The({ withUnexplained(a) :
      a \in {[k \in {"delta", "gamma", "theta", "vega", "rho", "unexplained",
                     "total"} |->
                IF k = "unexplained" THEN 0
                ELSE IF k = "total"
                  THEN Sub[props.portfolio.totalValue,
                           Val(props.previousPortfolio).totalValue]
                ELSE forEachOption(props.portfolio,
                                   Val(props.previousPortfolio),
                                   props.timeElapsed,
                                   Len(props.portfolio.options), k)]} }))

PnLInit ==
  /\ pnlProps = Null
  /\ pnlAttribution = Null

\* PnLAttribution renders with the given props; the memo is recomputed
renderPnLAttribution(props) ==
  /\ pnlProps' = Some(props)
  /\ pnlAttribution' = computePnlAttribution(props)
  /\ UNCHANGED <<homeVars, volVars, gsvVars,
               engineVars, uploadVars, simVars>>

\* the parent passes another current portfolio, previous portfolio or
\* elapsed time (the first render passes all three)
PnLRender ==
  \/ /\ pnlProps = Null
     /\ \E p \in PnLPortfolios, t \in ElapsedDays :
          renderPnLAttribution(
            [portfolio |-> p, previousPortfolio |-> Null, timeElapsed |-> t])
  \/ /\ pnlProps # Null
     /\ \E p \in PnLPortfolios :
          renderPnLAttribution([Val(pnlProps) EXCEPT !.portfolio = p])
  \/ /\ pnlProps # Null
     /\ \E q \in {Null} \cup {Some(p) : p \in PnLPortfolios} :
          renderPnLAttribution([Val(pnlProps) EXCEPT !.previousPortfolio = q])
  \/ /\ pnlProps # Null
     /\ \E t \in ElapsedDays :
          renderPnLAttribution([Val(pnlProps) EXCEPT !.timeElapsed = t])

\* ------------------------------------------------------------------------
\* VolatilitySurface component (volatility surface upload and interpolator)
\* ------------------------------------------------------------------------

\* Bilinear interpolation: the while loops, from i1 (indices from 0, the
\* element at index i of an array a is a[i + 1])
RECURSIVE findIndex(_, _, _)
findIndex_first(axis, v, i1) == i1

findIndex(axis, v, i1) ==
  IF i1 < Len(axis) - 1 /\ Le[axis[i1 + 2], v]
    THEN findIndex(axis, v, i1 + 1)
    ELSE i1

\* Math.min on array indices
IMin[a \in Int, b \in Int] == IF a <= b THEN a ELSE b

\* a || 1 on numbers: 0 and NaN are falsy
OrOne[a \in Int] == IF a = 0 \/ IsNaN(a) THEN Num(1) ELSE a

\* the weight along one axis, between the indices k1 and k2
weight_unguarded(v, axis, k1, k2) ==
  Div[Sub[v, axis[k1 + 1]], Sub[axis[k2 + 1], axis[k1 + 1]]]

weight(v, axis, k1, k2) ==
  Div[Sub[v, axis[k1 + 1]], OrOne[Sub[axis[k2 + 1], axis[k1 + 1]]]]

\* the indices and weights interpolateVol computes
interpolateVolCell(strike, maturity, data) ==
  The({ [i1 |-> i1, i2 |-> IMin[i1 + 1, Len(data.strikes) - 1],
         j1 |-> j1, j2 |-> IMin[j1 + 1, Len(data.maturities) - 1],
         x |-> weight(strike, data.strikes, i1,
                      IMin[i1 + 1, Len(data.strikes) - 1]),
         y |-> weight(maturity, data.maturities, j1,
                      IMin[j1 + 1, Len(data.maturities) - 1])] :
          i1 \in {findIndex(data.strikes, strike, 0)},
          j1 \in {findIndex(data.maturities, maturity, 0)} })

\* the weighted sum of the four corners
bilinear(v11, v12, v21, v22, x, y) ==
  Add[Add[Add[Mul[Mul[v11, Sub[Num(1), x]], Sub[Num(1), y]],
              Mul[Mul[v12, x], Sub[Num(1), y]]],
          Mul[Mul[v21, Sub[Num(1), x]], y]],
      Mul[Mul[v22, x], y]]

\* Bilinear interpolation function (on a grid with at least one strike and
\* one maturity)
interpolateVol(strike, maturity, data) ==
  The({ bilinear(data.volatilities[c.j1 + 1][c.i1 + 1],
                 data.volatilities[c.j1 + 1][c.i2 + 1],
                 data.volatilities[c.j2 + 1][c.i1 + 1],
                 data.volatilities[c.j2 + 1][c.i2 + 1], c.x, c.y) :
          c \in {interpolateVolCell(strike, maturity, data)} })

\* [...new Set(values)].sort((a, b) => a - b)
RECURSIVE sortedUnique(_)
sortedUnique_descending(values) ==
  IF values = {} THEN <<>>
  ELSE LET m == CHOOSE a \in values : \A b \in values : a >= b
       IN <<m>> \o sortedUnique(values \ {m})

sortedUnique(values) ==
  IF values = {} THEN <<>>
  ELSE LET m == CHOOSE a \in values : \A b \in values : a <= b
       IN <<m>> \o sortedUnique(values \ {m})

\* data.find(d => d.strike === strike && d.maturity === mat), from row i:
\* the first matching row's index, or 0 for undefined
RECURSIVE findPoint(_, _, _, _)
findPoint_strikeOnly(data, strike, mat, i) ==
  IF i > Len(data) THEN 0
  ELSE IF data[i].strike = strike THEN i
  ELSE findPoint(data, strike, mat, i + 1)

findPoint(data, strike, mat, i) ==
  IF i > Len(data) THEN 0
  ELSE IF data[i].strike = strike /\ data[i].maturity = mat THEN i
  ELSE findPoint(data, strike, mat, i + 1)

\* the volatility matrix onDrop builds
volatilityMatrix(data, strikes, maturities) ==
  [j \in 1..Len(maturities) |->
     [i \in 1..Len(strikes) |->
        The({ IF point # 0 THEN data[point].volatility ELSE 0 :
                point \in {findPoint(data, strikes[i], maturities[j], 1)} })]]

\* the surface onDrop builds from the parsed rows
buildSurface(data) ==
  The({ [strikes |-> strikes, maturities |-> maturities,
         volatilities |-> volatilityMatrix(data, strikes, maturities)] :
          strikes \in {sortedUnique({data[i].strike : i \in 1..Len(data)})},
          maturities \in
            {sortedUnique({data[i].maturity : i \in 1..Len(data)})} })

\* most rows in an uploaded surface file
MaxPoints == 4

\* The rows files are made of: three strikes at two maturities
VolRows ==
  << [strike |-> Num(100), maturity |-> 500, volatility |-> 200],
     [strike |-> Num(110), maturity |-> 500, volatility |-> 300],
     [strike |-> Num(120), maturity |-> 500, volatility |-> 260],
     [strike |-> Num(100), maturity |-> Num(1), volatility |-> 240],
     [strike |-> Num(110), maturity |-> Num(1), volatility |-> 180],
     [strike |-> Num(120), maturity |-> Num(1), volatility |-> 320] >>

\* the rows picked by a set of indices of VolRows, in file order ...
RECURSIVE rowsAscending(_)
rowsAscending(S) ==
  IF S = {} THEN <<>>
  ELSE LET m == CHOOSE a \in S : \A b \in S : a <= b
       IN <<VolRows[m]>> \o rowsAscending(S \ {m})

\* ... and in the reverse order
RECURSIVE rowsDescending(_)
rowsDescending(S) ==
  IF S = {} THEN <<>>
  ELSE LET m == CHOOSE a \in S : \A b \in S : a >= b
       IN <<VolRows[m]>> \o rowsDescending(S \ {m})

\* Uploaded files: at least one and at most MaxPoints rows
VolUploads ==
  { rowsAscending(S) :
      S \in { T \in SUBSET (1..Len(VolRows)) :
                Cardinality(T) \in 1..MaxPoints } }
  \cup
  { rowsDescending(S) :
      S \in { T \in SUBSET (1..Len(VolRows)) :
                Cardinality(T) \in 1..MaxPoints } }

\* (strike, maturity) pairs the interpolator is called with
QueryStrikes == {Num(90), Num(100), Num(105), Num(110), Num(120), Num(130)}
QueryMaturities == {250, 500, 750, Num(1), Num(2)}

\* Files for the interpolator alone: a surface of one volatility on two
\* strikes and two maturities, and surfaces with one cell, one line, cells
\* never uploaded, and all of VolRows
FlatRows ==
  << [strike |-> Num(100), maturity |-> 500, volatility |-> 250],
     [strike |-> Num(110), maturity |-> 500, volatility |-> 250],
     [strike |-> Num(100), maturity |-> Num(1), volatility |-> 250],
     [strike |-> Num(110), maturity |-> Num(1), volatility |-> 250] >>

InterpUploads ==
  {FlatRows}
  \cup { rowsAscending(S) :
           S \in {{1}, {1, 4}, {1, 2, 3}, {1, 2, 4, 5}, {2, 3, 5, 6},
                  {1, 5}, 1..Len(VolRows)} }

\* (strike, maturity) pairs for it, on and between the grid lines
InterpStrikes ==
  {Num(100), 102500, Num(105), Num(110), Num(115), Num(120)}
InterpMaturities == {500, 750, Num(1)}

VolInit ==
  /\ volData = Null
  /\ surfaceData = Null
  /\ volQuery = Null
  /\ volResult = Null

\* onDrop with a file that parses: the surface is built and a new
\* interpolator over it is passed to the parent
onDrop(data) ==
  /\ volData' = Some(data)
  /\ surfaceData' = Some(buildSurface(data))
  /\ volQuery' = Null
  /\ volResult' = Null
  /\ UNCHANGED <<homeVars, pnlVars, gsvVars,
               engineVars, uploadVars, simVars>>

\* the parent calls the interpolator it was last passed
callInterpolator(strike, maturity) ==
  /\ surfaceData # Null
  /\ volQuery' = Some([strike |-> strike, maturity |-> maturity])
  /\ volResult' = Some(interpolateVol(strike, maturity, Val(surfaceData)))
  /\ UNCHANGED <<volData, surfaceData, homeVars, pnlVars, gsvVars,
               engineVars, uploadVars, simVars>>

\* ------------------------------------------------------------------------
\* GreeksSurfaceViewer component (Greek surface over strike and maturity)
\* ------------------------------------------------------------------------

strikePoints == 40
timePoints == 40

\* strikes: Array.from({ length: strikePoints }, (_, i) => ...)
surfaceStrikes(minStrike, maxStrike) ==
  [k \in 1..strikePoints |->
     Add[minStrike,
         Mul[Sub[maxStrike, minStrike],
             Div[Num(k - 1), Num(strikePoints - 1)]]]]

\* times: Array.from({ length: timePoints }, (_, i) => ...)
surfaceTimes ==
  [m \in 1..timePoints |->
     Add[100, Mul[Sub[Num(2), 100], Div[Num(m - 1), Num(timePoints - 1)]]]]

\* the useMemo callback: null for a portfolio without positions
generateSurfacePoints(p) ==
  IF Len(p.options) = 0 THEN Null
  ELSE Some([strikes |-> surfaceStrikes(Mul[p.options[1].spotPrice, 700],
                                        Mul[p.options[1].spotPrice, 1300]),
             times |-> surfaceTimes])

\* { ...portfolio.options[0], strikePrice: k, timeToExpiry: t }
testOption(baseOption, k, t) ==
  Spread(baseOption, [strikePrice |-> k, timeToExpiry |-> t])

\* Portfolios handed to GreeksSurfaceViewer: the empty one and those with
\* the AAPL call as first position
GreekPortfolios ==
  { calculatePortfolioMetrics(l) :
      l \in { c \in ContractLists :
                Len(c) = 0 \/ (Len(c) > 0 /\ c[1].ticker = "AAPL") } }

\* the options the effect prices for those portfolios
SampledOptions ==
  UNION { { testOption(p.options[1],
                       Val(generateSurfacePoints(p)).strikes[k],
                       Val(generateSurfacePoints(p)).times[m]) :
              k \in 1..strikePoints, m \in 1..timePoints } :
          p \in { q \in GreekPortfolios : Len(q.options) > 0 } }

\* calculateOptionMetrics on the options the effect prices, tabulated (the
\* merge with the empty function makes the table explicit)
sampledMetrics ==
  <<>> @@ [o \in SampledOptions |-> calculateOptionMetrics(o)]

zValues_transposed(p, selectedGreek, strikes, times) ==
  [m \in 1..Len(times) |->
     [k \in 1..Len(strikes) |->
        sampledMetrics[testOption(p.options[1], strikes[m], times[k])]
          .greeks[selectedGreek]]]

\* zValues: times.map(t => strikes.map(k => ...))
zValues(p, selectedGreek, strikes, times) ==
  [m \in 1..Len(times) |->
     [k \in 1..Len(strikes) |->
        sampledMetrics[testOption(p.options[1], strikes[k], times[m])]
          .greeks[selectedGreek]]]

\* the props the parent passes
GreekProps ==
  [portfolio : GreekPortfolios,
   selectedGreek : {"delta", "gamma", "theta", "vega", "rho"}]

\* what the effect passes to setSurfaceData, for each props with surface
\* points, tabulated
sampledSurfaces ==
  <<>> @@
  [props \in { q \in GreekProps : Len(q.portfolio.options) > 0 } |->
     [x |-> Val(generateSurfacePoints(props.portfolio)).strikes,
      y |-> Val(generateSurfacePoints(props.portfolio)).times,
      z |-> zValues(props.portfolio, props.selectedGreek,
                    Val(generateSurfacePoints(props.portfolio)).strikes,
                    Val(generateSurfacePoints(props.portfolio)).times)]]

\* what the effect leaves in surfaceData: without surface points it returns
\* and surfaceData stays as it was
surfaceEffect(props, points, before) ==
  IF points = Null THEN before ELSE Some(sampledSurfaces[props])

GreeksInit ==
  /\ gsvProps = Null
  /\ greekSurfaceData = Null
  /\ viewMode = "surface"

\* GreeksSurfaceViewer renders with the given props; its memo and its effect
\* run
renderGreeksSurfaceViewer(props) ==
  /\ gsvProps' = Some(props)
  /\ greekSurfaceData' =
       surfaceEffect(props, generateSurfacePoints(props.portfolio),
                     greekSurfaceData)
  /\ UNCHANGED <<viewMode, homeVars, pnlVars, volVars,
               engineVars, uploadVars, simVars>>

\* the view-mode select, rendered once there is surface data
setViewMode(mode) ==
  /\ greekSurfaceData # Null
  /\ viewMode' = mode
  /\ UNCHANGED <<gsvProps, greekSurfaceData, homeVars, pnlVars, volVars,
               engineVars, uploadVars, simVars>>

\* what the component returns: the loading text without surface data, the
\* plot with it
gsvRendered == IF greekSurfaceData = Null THEN "loading" ELSE "plot"

\* ------------------------------------------------------------------------
\* Numbers at fine resolution
\* ------------------------------------------------------------------------
\* The tolerances of the pricing engine's contract (1e-6) lie below the
\* resolution 1 / SCALE.  For them the pricing source is evaluated a second
\* time on finite numbers of resolution 1 / FINE: the integer n stands for
\* n / FINE, with |n| < 2^31.  Products, quotients and the Math functions
\* are rounded to that resolution; sums, differences and comparisons of
\* such numbers are exact, as they are on the doubles of these magnitudes
\* up to 1e-15.

FINE == 100000000

\* FINE = LIMB * LIMB
LIMB == 10000

\* n / d on integers, d > 0, rounded to nearest, half away from zero
FineRDiv[n \in Int, d \in Int] ==
  IF (IAbs[n] % d) >= d - (IAbs[n] % d)
    THEN (IF n < 0 THEN -(IAbs[n] \div d + 1) ELSE IAbs[n] \div d + 1)
    ELSE (IF n < 0 THEN -(IAbs[n] \div d) ELSE IAbs[n] \div d)

\* a * b for a, b >= 0, from the four products of the operands' halves
FineMulAbs[a \in Int, b \in Int] ==
  (a \div LIMB) * (b \div LIMB)
  + ((a \div LIMB) * (b % LIMB)) \div LIMB
  + ((a % LIMB) * (b \div LIMB)) \div LIMB
  + ( ( (((a \div LIMB) * (b % LIMB)) % LIMB)
        + (((a % LIMB) * (b \div LIMB)) % LIMB) ) * LIMB
      + (a % LIMB) * (b % LIMB)
      + FINE \div 2 ) \div FINE

\* a * b
FineMul[a \in Int, b \in Int] ==
  IF (a < 0) = (b < 0) THEN FineMulAbs[IAbs[a], IAbs[b]]
  ELSE -FineMulAbs[IAbs[a], IAbs[b]]

\* <<q, r>> stands for q * b + r with 0 <= r < b: twice that number
FineDouble[q \in Int, r \in Int, b \in Int] ==
  IF r >= b - r THEN <<2 * q + 1, r - (b - r)>> ELSE <<2 * q, r + r>>

\* <<q, r>> stands for q * b + r with 0 <= r < b: that number plus r0 < b
FinePlus[p \in Int \X Int, r0 \in Int, b \in Int] ==
  IF p[2] >= b - r0 THEN <<p[1] + 1, p[2] - (b - r0)>>
  ELSE <<p[1], p[2] + r0>>

\* the pair's double
FineTwice[p \in Int \X Int, b \in Int] == FineDouble[p[1], p[2], b]

\* 10 r = q * b + r' for 0 <= r < b, as <<q, r'>>: 10 r = 2 (2 (2 r) + r)
FineDigit[r \in Int, b \in Int] ==
  FineTwice[FinePlus[FineTwice[FineDouble[0, r, b], b], r, b], b]

\* long division: q the quotient so far, p the next digit and remainder,
\* n the decimal places still to produce; the last place is rounded
FineLongDiv[q \in Int, p \in Int \X Int, b \in Int, n \in Int] ==
  IF n = 0
    THEN (IF p[2] >= b - p[2] THEN 10 * q + p[1] + 1 ELSE 10 * q + p[1])
    ELSE FineLongDiv[10 * q + p[1], FineDigit[p[2], b], b, n - 1]

\* a / b for a >= 0, b > 0
FineDivAbs[a \in Int, b \in Int] ==
  FineLongDiv[0, <<a \div b, a % b>>, b, 8]

\* a / b, b # 0
FineDiv[a \in Int, b \in Int] ==
  IF (a < 0) = (b < 0) THEN FineDivAbs[IAbs[a], IAbs[b]]
  ELSE -FineDivAbs[IAbs[a], IAbs[b]]

\* one Newton step for the square root of v from the estimate s
FineSqrtStep[v \in Int, s \in Int] ==
  IF s = 0 THEN 0 ELSE FineRDiv[s + FineDiv[v, s], 2]

\* Math.sqrt, v >= 0
FineSqrt[v \in Int] ==
  FineSqrtStep[v, FineSqrtStep[v, ISqrtIn[v, 0, ISqrtBound] * LIMB]]

\* e and 1 / e
FineE == 271828183
FineEInv == 36787944

\* e^n for an integer n
FineExpInt[n \in Int] ==
  IF n = 0 THEN FINE
  ELSE IF n > 0 THEN FineMul[FineE, FineExpInt[n - 1]]
  ELSE FineMul[FineEInv, FineExpInt[n + 1]]

\* e^f for 0 <= f < 1: the Taylor polynomial of degree 14 by Horner's rule,
\* acc the value of the inner polynomial when k terms remain outside it
FineExpFrac[f \in Int, k \in Int, acc \in Int] ==
  IF k = 0 THEN acc
  ELSE FineExpFrac[f, k - 1, FINE + FineRDiv[FineMul[f, acc], k]]

\* Math.exp: e^x = e^floor(x) * e^(x - floor(x))
FineExp[x \in Int] ==
  FineMul[FineExpInt[x \div FINE], FineExpFrac[x % FINE, 14, FINE]]

\* ln 2
FineLn2 == 69314718

\* 2 atanh u = 2 (u + u^3/3 + ... + u^13/13), summed from the term u^k / k
FineAtanh2[usq \in Int, power \in Int, k \in Int] ==
  IF k > 13 THEN 0
  ELSE 2 * FineRDiv[power, k] + FineAtanh2[usq, FineMul[power, usq], k + 2]

\* ln x for 2/3 <= x <= 3/2, from u = (x - 1) / (x + 1)
FineLnNear1[u \in Int] == FineAtanh2[FineMul[u, u], u, 1]

\* Math.log, x > 0: ln x = ln(x/2) + ln 2 = ln(2x) - ln 2
FineLog[x \in Int] ==
  IF x > 3 * (FINE \div 2) THEN FineLog[FineRDiv[x, 2]] + FineLn2
  ELSE IF x < (2 * FINE) \div 3 THEN FineLog[2 * x] - FineLn2
  ELSE FineLnNear1[FineDiv[x - FINE, x + FINE]]

\* ------------------------------------------------------------------------
\* lib/utils/blackScholes.ts at fine resolution
\* ------------------------------------------------------------------------

\* p of normalCDF, from t and d; the decimal literals of the source are
\* written in units of 1 / FINE
normalCDFp_fine[t \in Int, d \in Int] ==
  FineMul[FineMul[d, t],
          31938150 + FineMul[t, -35656380 + FineMul[t, 178147800 +
            FineMul[t, -182125600 + FineMul[t, 133027400]]]]]

\* t and d of normalCDF
normalCDFt_fine[x \in Int] ==
  FineDiv[FINE, FINE + FineMul[23164190, IAbs[x]]]
normalCDFd_fine[x \in Int] ==
  FineMul[39894230, FineExp[FineRDiv[FineMul[-x, x], 2]]]

\* Standard normal cumulative distribution function
normalCDF_fine[x \in Int] ==
  IF x > 0
    THEN FINE - normalCDFp_fine[normalCDFt_fine[x], normalCDFd_fine[x]]
    ELSE normalCDFp_fine[normalCDFt_fine[x], normalCDFd_fine[x]]

\* d2 from d1
calculateD2_fine[d1 \in Int, T \in Int, sigma \in Int] ==
  <<d1, d1 - FineMul[sigma, FineSqrt[T]]>>

\* d1 and d2, as the pair <<d1, d2>>
calculateD1D2_fine[S \in Int, K \in Int, T \in Int, r \in Int, sigma \in Int] ==
  calculateD2_fine[
    FineDiv[FineLog[FineDiv[S, K]]
              + FineMul[r + FineRDiv[FineMul[sigma, sigma], 2], T],
            FineMul[sigma, FineSqrt[T]]],
    T, sigma]

\* the return statement of calculateOptionPrice
optionPriceOf_fine(option, d, discountFactor) ==
  LET S == option.spotPrice
      K == option.strikePrice
  IN IF option.type = "Call"
       THEN FineMul[S, normalCDF_fine[d[1]]]
              - FineMul[FineMul[K, discountFactor], normalCDF_fine[d[2]]]
       ELSE FineMul[FineMul[K, discountFactor], normalCDF_fine[-d[2]]]
              - FineMul[S, normalCDF_fine[-d[1]]]

\* Option price by the Black-Scholes formula
calculateOptionPrice_fine(option) ==
  The({ optionPriceOf_fine(option, d, discountFactor) :
          d \in {calculateD1D2_fine[option.spotPrice, option.strikePrice,
                                    option.timeToExpiry, option.riskFreeRate,
                                    option.volatility]},
          discountFactor \in
            {FineExp[FineMul[-option.riskFreeRate, option.timeToExpiry]]} })

\* Valid contract terms (spot, strike, maturity, volatility > 0), in units
\* of 1 / FINE
EngineTerms ==
  [spotPrice : {8 * FINE, 10 * FINE, 12 * FINE},
   strikePrice : {8 * FINE, 10 * FINE, 12 * FINE},
   timeToExpiry : {FINE, 4 * FINE},
   volatility : {FINE \div 4, FINE \div 2},
   riskFreeRate : {FINE \div 32, FINE \div 20, FINE \div 8}]

\* Arguments of normalCDF: -4.0, -3.9, ..., 4.0
CdfArgs == { k * (FINE \div 10) : k \in -40..40 }

\* normalCDF on those arguments, tabulated
cdfTable == <<>> @@ [x \in CdfArgs |-> normalCDF_fine[x]]

EngineInit ==
  /\ quote = Null
  /\ cdfCalls = <<>>
  /\ greeksCall = Null

\* calculateOptionPrice on a call and on a put of the same terms
priceCallAndPut(terms) ==
  /\ quote' =
       Some([terms |-> terms,
             call |-> calculateOptionPrice_fine(
                        Spread(terms, [type |-> "Call"])),
             put |-> calculateOptionPrice_fine(
                       Spread(terms, [type |-> "Put"]))])
  /\ UNCHANGED <<cdfCalls, greeksCall, homeVars, pnlVars, volVars, gsvVars,
               uploadVars, simVars>>

\* normalCDF(x); the call before it is kept beside it
callNormalCDF(x) ==
  /\ cdfCalls' =
       IF cdfCalls = <<>> THEN <<[x |-> x, value |-> cdfTable[x]]>>
       ELSE <<cdfCalls[Len(cdfCalls)], [x |-> x, value |-> cdfTable[x]]>>
  /\ UNCHANGED <<quote, greeksCall, homeVars, pnlVars, volVars, gsvVars,
               uploadVars, simVars>>

\* Options with spot, strike, maturity and volatility positive, the rate of
\* either sign
GreekOptions ==
  [ticker : {"AAPL"}, type : {"Call", "Put"},
   spotPrice : {Num(50), Num(100), Num(150)},
   strikePrice : {Num(100), Num(120)},
   timeToExpiry : {100, Num(1), Num(2)},
   volatility : {100, 500},
   riskFreeRate : {-50, 0, 50},
   quantity : {Num(1)}]

\* calculateGreeks(option)
callCalculateGreeks(option) ==
  /\ greeksCall' = Some([option |-> option, greeks |-> calculateGreeks(option)])
  /\ UNCHANGED <<quote, cdfCalls, homeVars, pnlVars, volVars, gsvVars,
               uploadVars, simVars>>

\* ------------------------------------------------------------------------
\* lib/utils/blackScholes.ts, second part: the simulator's calculator
\* ------------------------------------------------------------------------

\* jStat.normal.cdf(x, 0, 1) and jStat.normal.pdf(x, 0, 1): the standard
\* normal distribution and density, taken to be the functions the pricing
\* engine uses (they differ by less than 1 / SCALE)
jStat_normal_cdf[x \in Int] == normalCDF[x]
jStat_normal_pdf[x \in Int] == normalPDF[x]

\* the price and the Greeks of calculateBlackScholes
outputsOf(inputs_, d1, d2, Nd1, Nd2, Npd1, discount) ==
  LET S == inputs_.stockPrice
      K == inputs_.strikePrice
      T == inputs_.timeToMaturity
      v == inputs_.volatility
      r == inputs_.riskFreeRate
      isCall == inputs_.isCall
      sign == IF isCall THEN Num(1) ELSE Num(-1)
  IN [optionPrice |->
        IF isCall
          THEN Sub[Mul[S, Nd1], Mul[Mul[K, discount], Nd2]]
          ELSE Sub[Mul[Mul[K, discount], Sub[Num(1), Nd2]],
                   Mul[S, Sub[Num(1), Nd1]]],
      d1 |-> d1,
      d2 |-> d2,
      delta |-> IF isCall THEN Nd1 ELSE Sub[Nd1, Num(1)],
      gamma |-> Div[Npd1, Mul[Mul[S, v], MathSqrt[T]]],
      theta |-> Sub[Div[Neg[Mul[Mul[S, v], Npd1]],
                        Mul[Num(2), MathSqrt[T]]],
                    Mul[Mul[Mul[Mul[sign, r], K], discount], Nd2]],
      vega |-> Mul[Mul[S, MathSqrt[T]], Npd1],
      rho |-> Mul[Mul[Mul[Mul[sign, K], T], discount], Nd2]]

calculateBlackScholes(inputs_) ==
  The({ outputsOf(inputs_, d[1], d[2],
                  jStat_normal_cdf[IF inputs_.isCall THEN d[1] ELSE Neg[d[1]]],
                  jStat_normal_cdf[IF inputs_.isCall THEN d[2] ELSE Neg[d[2]]],
                  jStat_normal_pdf[d[1]],
                  MathExp[Mul[Neg[inputs_.riskFreeRate],
                              inputs_.timeToMaturity]]) :
          d \in {calculateD1D2[inputs_.stockPrice, inputs_.strikePrice,
                               inputs_.timeToMaturity, inputs_.riskFreeRate,
                               inputs_.volatility]} })

\* validateInputs[name]?.(value): no validator is kept for isCall
validateInputs(name, value) ==
  CASE name = "stockPrice" -> Gt[value, 0]
    [] name = "strikePrice" -> Gt[value, 0]
    [] name = "timeToMaturity" -> Gt[value, 0] /\ Le[value, Num(10)]
    [] name = "volatility" -> Gt[value, 0] /\ Le[value, Num(2)]
    [] name = "riskFreeRate" -> Le[-100, value] /\ Le[value, 500]
    [] OTHER -> FALSE

defaultInputs ==
  [stockPrice |-> Num(100), strikePrice |-> Num(100),
   timeToMaturity |-> Num(1), volatility |-> 200, riskFreeRate |-> 50,
   isCall |-> TRUE]

\* ------------------------------------------------------------------------
\* BlackScholesSimulator
\* ------------------------------------------------------------------------

\* a value of type number | boolean
numberValue(n) == [t |-> "number", n |-> n, b |-> FALSE]
booleanValue(b) == [t |-> "boolean", n |-> 0, b |-> b]

\* handleInputChange without its validation
handleInputChange_unvalidated(name, value) ==
  /\ simCall' = Some([name |-> name, value |-> value])
  /\ inputs' = [inputs EXCEPT
                  ![name] = IF value.t = "number" THEN value.n ELSE value.b]
  /\ outputs' = Some(calculateBlackScholes(inputs'))
  /\ UNCHANGED <<homeVars, pnlVars, volVars, gsvVars, engineVars, uploadVars>>

\* handleInputChange, and the effect on [inputs] that follows the render
handleInputChange(name, value) ==
  /\ simCall' = Some([name |-> name, value |-> value])
  /\ IF value.t = "number" /\ ~validateInputs(name, value.n)
       THEN UNCHANGED <<inputs, outputs>>
       ELSE /\ inputs' =
                 [inputs EXCEPT
                    ![name] = IF value.t = "number" THEN value.n ELSE value.b]
            /\ outputs' = Some(calculateBlackScholes(inputs'))
  /\ UNCHANGED <<homeVars, pnlVars, volVars, gsvVars, engineVars, uploadVars>>

\* The changes the sliders and the toggle make: handleInputChange(key,
\* parseFloat(e.target.value)) for the five numbers, with values within and
\* beyond the validators' limits, and handleInputChange('isCall', checked)
SimChanges ==
  ({"stockPrice"} \X {numberValue(n) : n \in {Num(50), 0, NaN}})
  \cup ({"strikePrice"} \X {numberValue(n) : n \in {Num(120), Num(-1)}})
  \cup ({"timeToMaturity"} \X
          {numberValue(n) : n \in {Num(2), 0, 10500}})
  \cup ({"volatility"} \X {numberValue(n) : n \in {Num(2), 0, 2010}})
  \cup ({"riskFreeRate"} \X
          {numberValue(n) : n \in {-100, 500, -110, 510}})
  \cup ({"isCall"} \X {booleanValue(b) : b \in BOOLEAN})

\* the simulator once mounted: the effect has run on the default inputs
SimInit ==
  /\ inputs = defaultInputs
  /\ outputs = Some(calculateBlackScholes(defaultInputs))
  /\ simCall = Null

\* ------------------------------------------------------------------------
\* Specifications
\* ------------------------------------------------------------------------

Init ==
  /\ HomeInit
  /\ PnLInit
  /\ VolInit
  /\ GreeksInit
  /\ EngineInit
  /\ UploadInit
  /\ SimInit

\* Home with the stress test in use on the loaded portfolio, before the
\* what-if panel's timeout has fired
StressNext ==
  \/ \E options \in ContractLists : loadPortfolio(options)
  \/ uploadNewPortfolio
  \/ \E param \in DOMAIN StressValues : \E value \in StressValues[param] :
       stressHandleParamChange(param, value)
  \/ runStressTest

\* Home with the what-if panel in use
WhatIfNext ==
  \/ \E options \in ContractLists : loadPortfolio(options)
  \/ uploadNewPortfolio
  \/ \E param \in DOMAIN TuningValues : \E value \in TuningValues[param] :
       whatIfHandleParamChange(param, value)
  \/ whatIfTimeout

\* Home with both panels in use: the spot shock and the time-decay slider
HomeNext ==
  \/ \E options \in ContractLists : loadPortfolio(options)
  \/ uploadNewPortfolio
  \/ \E value \in StressValues.spotPriceChange :
       stressHandleParamChange("spotPriceChange", value)
  \/ runStressTest
  \/ \E value \in TuningValues.timeDecayDays :
       whatIfHandleParamChange("timeDecayDays", value)
  \/ whatIfTimeout

\* the volatility surface component and the caller of its interpolator
VolNext ==
  \/ \E data \in VolUploads : onDrop(data)
  \/ \E strike \in QueryStrikes, maturity \in QueryMaturities :
       callInterpolator(strike, maturity)

\* the Greek surface viewer: the parent passes a portfolio and a Greek, the
\* user picks a view mode
GreeksNext ==
  \/ \E props \in GreekProps : renderGreeksSurfaceViewer(props)
  \/ \E mode \in {"surface", "contour", "heatmap"} : setViewMode(mode)

\* the upload page: files are dropped, their parses settle in any order,
\* and "Upload New Portfolio" brings FileUpload back
UploadNext ==
  \/ \E file \in UploadFiles : fileUploadOnDrop(file)
  \/ \E i \in 1..MaxDrops : dropSettles(i)
  \/ uploadNewPortfolio

\* the interpolator on its own files
InterpNext ==
  \/ \E data \in InterpUploads : onDrop(data)
  \/ \E strike \in InterpStrikes, maturity \in InterpMaturities :
       callInterpolator(strike, maturity)

ParityNext == \E terms \in EngineTerms : priceCallAndPut(terms)

CDFNext == \E x \in CdfArgs : callNormalCDF(x)

EngineGreeksNext == \E option \in GreekOptions : callCalculateGreeks(option)

SimNext == \E change \in SimChanges : handleInputChange(change[1], change[2])

Spec == Init /\ [][HomeNext]_vars
SpecStress == Init /\ [][StressNext]_vars
SpecWhatIf == Init /\ [][WhatIfNext]_vars
SpecPnL == Init /\ [][PnLRender]_vars
SpecVol == Init /\ [][VolNext]_vars
SpecInterp == Init /\ [][InterpNext]_vars
SpecGreeks == Init /\ [][GreeksNext]_vars
SpecUpload == Init /\ [][UploadNext]_vars
SpecSim == Init /\ [][SimNext]_vars
SpecParity == Init /\ [][ParityNext]_vars
SpecCDF == Init /\ [][CDFNext]_vars
SpecEngineGreeks == Init /\ [][EngineGreeksNext]_vars

\* ------------------------------------------------------------------------
\* Properties
\* ------------------------------------------------------------------------

\* the sum of a and its five components and residual, left to right
C1_Sum(a) ==
  Add[Add[Add[Add[Add[a.delta, a.gamma], a.theta], a.vega], a.rho],
      a.unexplained]

\* C1: for a current and a previous portfolio with the same number of
\* positions, the attribution's total is current.totalValue -
\* previous.totalValue and equals delta + gamma + theta + vega + rho +
\* unexplained.
C1_TotalIsSumOfComponents ==
  (/\ pnlAttribution # Null
   /\ Len(Val(pnlProps).portfolio.options)
        = Len(Val(Val(pnlProps).previousPortfolio).options))
  => /\ Val(pnlAttribution).total
          = Sub[Val(pnlProps).portfolio.totalValue,
                Val(Val(pnlProps).previousPortfolio).totalValue]
     /\ Val(pnlAttribution).total = C1_Sum(Val(pnlAttribution))

\* C2: when the current and the previous portfolio differ in their number of
\* positions, no attribution is produced.
C2_LengthMismatchGivesNoAttribution ==
  (/\ pnlProps # Null
   /\ Val(pnlProps).previousPortfolio # Null
   /\ Len(Val(pnlProps).portfolio.options)
        # Len(Val(Val(pnlProps).previousPortfolio).options))
  => pnlAttribution = Null

\* the sum over the first n positions of price x quantity
RECURSIVE C3_SumValue(_, _)
C3_SumValue(options, n) ==
  IF n = 0 THEN 0
  ELSE Add[C3_SumValue(options, n - 1),
           Mul[options[n].price, options[n].quantity]]

\* the sum over the first n positions of a Greek x quantity
RECURSIVE C3_SumGreek(_, _, _)
C3_SumGreek(options, n, greek) ==
  IF n = 0 THEN 0
  ELSE Add[C3_SumGreek(options, n - 1, greek),
           Mul[options[n].greeks[greek], options[n].quantity]]

C3_Aggregated(p) ==
  /\ p.totalValue = C3_SumValue(p.options, Len(p.options))
  /\ DOMAIN p.aggregateGreeks = {"delta", "gamma", "theta", "vega", "rho"}
  /\ \A greek \in {"delta", "gamma", "theta", "vega", "rho"} :
       p.aggregateGreeks[greek] = C3_SumGreek(p.options, Len(p.options), greek)

\* C3: every portfolio calculatePortfolioMetrics has returned (the loaded,
\* the what-if and the stressed one) has totalValue = the sum of price x
\* quantity and each of the five aggregate Greeks = the sum of that Greek x
\* quantity.
C3_AggregationInvariant ==
  \A o \in {portfolio, whatIfPortfolio, stressedPortfolio} :
    o # Null => C3_Aggregated(Val(o))

C3_Witness ==
  /\ portfolio # Null /\ whatIfPortfolio # Null /\ stressedPortfolio # Null
  /\ Len(Val(stressedPortfolio).options) = 2
  /\ IsFinite(Val(stressedPortfolio).aggregateGreeks.rho)
  /\ Val(stressedPortfolio).aggregateGreeks.rho # 0
  /\ Val(stressedPortfolio).totalValue # 0

\* C4: a stress test run with the three shocks at 0 gives a portfolio with
\* the totalValue and the five aggregate Greeks of the portfolio it was run
\* on.
C4_ZeroScenarioIsIdentity ==
  [][(runStressTest /\ stressParams = StressParamsInit)
       => /\ Val(stressedPortfolio').totalValue = stressSource.totalValue
          /\ Val(stressedPortfolio').aggregateGreeks
               = stressSource.aggregateGreeks]_vars

C4_Witness ==
  /\ stressedPortfolio # Null
  /\ stressParams = StressParamsInit
  /\ Val(stressTestResults).spotPriceChange = 0
  /\ Val(stressTestResults).volatilityChange = 0
  /\ Val(stressTestResults).rateChange = 0
  /\ Len(Val(stressedPortfolio).options) = 2
  /\ Val(stressedPortfolio).totalValue = Val(portfolio).totalValue
  /\ Val(stressedPortfolio).totalValue # 0

\* the intrinsic value max(0, sign * (S - K))
C5_Intrinsic(option) ==
  MathMax[0, IF option.type = "Call"
               THEN Sub[option.spotPrice, option.strikePrice]
               ELSE Sub[option.strikePrice, option.spotPrice]]

\* C5: a position the what-if tuning leaves with maturity 0 is priced at
\* its intrinsic value, with gamma = theta = vega = rho = 0.
C5_ZeroMaturityIsIntrinsic ==
  whatIfPortfolio # Null =>
    \A i \in 1..Len(Val(whatIfPortfolio).options) :
      LET o == Val(whatIfPortfolio).options[i]
      IN o.timeToExpiry = 0 =>
           /\ o.price = C5_Intrinsic(o)
           /\ o.greeks.gamma = 0 /\ o.greeks.theta = 0
           /\ o.greeks.vega = 0 /\ o.greeks.rho = 0

\* the index (from 0) of v in the array axis
C6_IndexOf(axis, v) == (CHOOSE k \in 1..Len(axis) : axis[k] = v) - 1

\* C6: the interpolator called at a grid point (strikes[i], maturities[j])
\* returns volatilities[j][i].
C6_ExactAtGridPoints ==
  (/\ volQuery # Null
   /\ \E k \in 1..Len(Val(surfaceData).strikes) :
        Val(surfaceData).strikes[k] = Val(volQuery).strike
   /\ \E k \in 1..Len(Val(surfaceData).maturities) :
        Val(surfaceData).maturities[k] = Val(volQuery).maturity)
  => volResult =
       Some(Val(surfaceData).volatilities
              [C6_IndexOf(Val(surfaceData).maturities,
                          Val(volQuery).maturity) + 1]
              [C6_IndexOf(Val(surfaceData).strikes,
                          Val(volQuery).strike) + 1])

\* a call at the last strike and the last maturity of a grid with two
\* strikes and two maturities, every cell of it uploaded
C6_Witness ==
  /\ volQuery # Null
  /\ Len(Val(surfaceData).strikes) = 2
  /\ Len(Val(surfaceData).maturities) = 2
  /\ \A j \in 1..2 : \A i \in 1..2 : Val(surfaceData).volatilities[j][i] # 0
  /\ Val(volQuery).strike = Val(surfaceData).strikes[2]
  /\ Val(volQuery).maturity = Val(surfaceData).maturities[2]
  /\ volResult = Some(Val(surfaceData).volatilities[2][2])

\* v clamped to the range of the (sorted) array axis
C7_Clamp(axis, v) ==
  IF v < axis[1] THEN axis[1]
  ELSE IF v > axis[Len(axis)] THEN axis[Len(axis)]
  ELSE v

\* C7: the interpolator called outside the grid returns what it returns
\* with the strike and the maturity clamped to the grid's range.
C7_OutsideIsClamped ==
  volQuery # Null =>
    volResult =
      Some(interpolateVol(
             C7_Clamp(Val(surfaceData).strikes, Val(volQuery).strike),
             C7_Clamp(Val(surfaceData).maturities, Val(volQuery).maturity),
             Val(surfaceData)))

\* the contract C8 states for a position
C8_Stressed(option, sp) ==
  [ticker |-> option.ticker, type |-> option.type,
   strikePrice |-> option.strikePrice, timeToExpiry |-> option.timeToExpiry,
   quantity |-> option.quantity,
   spotPrice |->
     Mul[option.spotPrice, Add[Num(1), Div[sp.spotPriceChange, Num(100)]]],
   volatility |->
     Mul[option.volatility, Add[Num(1), Div[sp.volatilityChange, Num(100)]]],
   riskFreeRate |-> Add[option.riskFreeRate, Div[sp.rateChange, Num(100)]]]

\* C8: the stressed portfolio is the aggregation of the contracts with
\* spot' = spot (1 + spotPriceChange/100), volatility' = volatility
\* (1 + volatilityChange/100), rate' = rate + rateChange/100 and the other
\* fields unchanged.
C8_StressTransform ==
  [][runStressTest
       => Val(stressedPortfolio') =
            calculatePortfolioMetrics(
              [i \in 1..Len(stressSource.options) |->
                 C8_Stressed(stressSource.options[i], stressParams)])]_vars

C8_Witness ==
  /\ stressTestResults # Null /\ portfolio # Null /\ whatIfPortfolio = Null
  /\ Val(stressTestResults).spotPriceChange # 0
  /\ Val(stressTestResults).volatilityChange # 0
  /\ Val(stressTestResults).rateChange # 0
  /\ Len(Val(portfolio).options) = 2
  /\ \A i \in 1..2 :
       LET o == Val(stressTestResults).stressedPortfolio.options[i]
           b == Val(portfolio).options[i]
       IN /\ o.spotPrice # b.spotPrice /\ o.volatility # b.volatility
          /\ o.riskFreeRate # b.riskFreeRate /\ o.strikePrice = b.strikePrice

\* the contract C9 states for a position
C9_Tuned(option, tp) ==
  [ticker |-> option.ticker, type |-> option.type,
   spotPrice |-> option.spotPrice, strikePrice |-> option.strikePrice,
   quantity |-> option.quantity,
   volatility |-> Mul[option.volatility, tp.volatilityMultiplier],
   timeToExpiry |->
     MathMax[0, Sub[option.timeToExpiry, Div[tp.timeDecayDays, Num(365)]]],
   riskFreeRate |-> Add[option.riskFreeRate, Div[tp.rateShift, Num(100)]]]

C11_Term(greek, c, p, t) ==
  CASE greek = "delta" ->
         Mul[Mul[p.greeks.delta, Sub[c.spotPrice, p.spotPrice]], c.quantity]
    [] greek = "gamma" ->
         Mul[Mul[Mul[Mul[500, p.greeks.gamma], Sub[c.spotPrice, p.spotPrice]],
                 Sub[c.spotPrice, p.spotPrice]], c.quantity]
    [] greek = "theta" ->
         Mul[Mul[p.greeks.theta, Div[t, Num(365)]], c.quantity]
    [] greek = "vega" ->
         Mul[Mul[p.greeks.vega, Sub[c.volatility, p.volatility]], c.quantity]
    [] greek = "rho" ->
         Mul[Mul[p.greeks.rho, Sub[c.riskFreeRate, p.riskFreeRate]],
             c.quantity]

\* the sum of C11_Term over the first n pairs
RECURSIVE C11_Sum(_, _, _, _, _)
C11_Sum(greek, current, previous, t, n) ==
  IF n = 0 THEN 0
  ELSE Add[C11_Sum(greek, current, previous, t, n - 1),
           C11_Term(greek, current[n], previous[n], t)]

\* C11: each of delta, gamma, theta, vega and rho of the attribution is the
\* sum over the aligned position pairs of prev.delta x dSpot x q,
\* 0.5 x prev.gamma x dSpot^2 x q, prev.theta x (elapsedDays/365) x q,
\* prev.vega x dVol x q and prev.rho x dRate x q, with the previous
\* position's Greeks, current-minus-previous differences and the quantity q
\* of the position.
C11_ComponentsAccumulate ==
  pnlAttribution # Null =>
    LET current == Val(pnlProps).portfolio.options
        previous == Val(Val(pnlProps).previousPortfolio).options
    IN \A greek \in {"delta", "gamma", "theta", "vega", "rho"} :
         Val(pnlAttribution)[greek] =
           C11_Sum(greek, current, previous, Val(pnlProps).timeElapsed,
                   IF Len(current) < Len(previous) THEN Len(current)
                   ELSE Len(previous))

C11_Witness ==
  /\ pnlAttribution # Null
  /\ Len(Val(pnlProps).portfolio.options) = 2
  /\ Len(Val(Val(pnlProps).previousPortfolio).options) = 2
  /\ \A i \in 1..2 :
       /\ Val(pnlProps).portfolio.options[i].quantity
            = Val(Val(pnlProps).previousPortfolio).options[i].quantity
       /\ Val(pnlProps).portfolio.options[i].greeks
            # Val(Val(pnlProps).previousPortfolio).options[i].greeks
  /\ \A greek \in {"delta", "gamma", "theta", "vega", "rho"} :
       /\ IsFinite(Val(pnlAttribution)[greek])
       /\ Val(pnlAttribution)[greek] # 0

\* C12: an empty contract list loads as a portfolio with no positions,
\* totalValue = 0 and the five aggregate Greeks = 0.
C12_EmptyListGivesZeroPortfolio ==
  [][loadPortfolio(<<>>)
       => portfolio' =
            Some([options |-> <<>>, totalValue |-> 0,
                  aggregateGreeks |->
                    [delta |-> 0, gamma |-> 0, theta |-> 0, vega |-> 0,
                     rho |-> 0]])]_vars

C12_Witness ==
  /\ portfolio # Null
  /\ Len(Val(portfolio).options) = 0
  /\ Val(portfolio).totalValue = 0
  /\ \A greek \in {"delta", "gamma", "theta", "vega", "rho"} :
       Val(portfolio).aggregateGreeks[greek] = 0

\* C13: the positions of a loaded portfolio are as many as the input
\* contracts and in their order, position i with the contract fields of
\* input i, equal contracts kept as separate positions.
C13_PositionsFollowInput ==
  [][\A options \in ContractLists :
       loadPortfolio(options)
         => /\ Len(Val(portfolio').options) = Len(options)
            /\ \A i \in 1..Len(options) :
                 \A field \in DOMAIN options[i] :
                   Val(portfolio').options[i][field] = options[i][field]]_vars

\* a loaded portfolio of two positions in other than alphabetical order, and
\* one of two equal positions
C13_Witness ==
  /\ portfolio # Null
  /\ Len(Val(portfolio).options) = 2
  /\ \/ /\ Val(portfolio).options[1].ticker = "MSFT"
        /\ Val(portfolio).options[2].ticker = "AAPL"
     \/ /\ Val(portfolio).options[1].ticker = Val(portfolio).options[2].ticker
        /\ Val(portfolio).options[1].type = Val(portfolio).options[2].type

\* the rows of data at a strike and a maturity
C14_Points(data, strike, maturity) ==
  { k \in 1..Len(data) :
      data[k].strike = strike /\ data[k].maturity = maturity }

\* C14: each cell volatilities[j][i] of the built surface is the volatility
\* of the uploaded point with strike strikes[i] and maturity maturities[j],
\* and 0 when no point was uploaded for that pair.
C14_CellsFromPoints ==
  surfaceData # Null =>
    \A j \in 1..Len(Val(surfaceData).maturities) :
      \A i \in 1..Len(Val(surfaceData).strikes) :
        LET points == C14_Points(Val(volData), Val(surfaceData).strikes[i],
                                 Val(surfaceData).maturities[j])
        IN /\ points = {} => Val(surfaceData).volatilities[j][i] = 0
           /\ \A k \in points :
                Val(surfaceData).volatilities[j][i]
                  = Val(volData)[k].volatility

\* a two-by-two grid built from three points
C14_Witness ==
  /\ surfaceData # Null
  /\ Len(Val(volData)) = 3
  /\ Len(Val(surfaceData).strikes) = 2
  /\ Len(Val(surfaceData).maturities) = 2
  /\ Cardinality({ c \in (1..2) \X (1..2) :
                     Val(surfaceData).volatilities[c[1]][c[2]] = 0 }) = 1
  /\ Cardinality({ Val(surfaceData).volatilities[c[1]][c[2]] :
                     c \in (1..2) \X (1..2) }) = 4

\* C15: the built surface has strictly increasing strikes, strictly
\* increasing maturities, and a table of maturities.length rows of
\* strikes.length entries each.
C15_SurfaceWellFormed ==
  surfaceData # Null =>
    /\ \A i \in 1..(Len(Val(surfaceData).strikes) - 1) :
         Val(surfaceData).strikes[i] < Val(surfaceData).strikes[i + 1]
    /\ \A j \in 1..(Len(Val(surfaceData).maturities) - 1) :
         Val(surfaceData).maturities[j] < Val(surfaceData).maturities[j + 1]
    /\ DOMAIN Val(surfaceData).volatilities
         = 1..Len(Val(surfaceData).maturities)
    /\ \A j \in 1..Len(Val(surfaceData).maturities) :
         DOMAIN Val(surfaceData).volatilities[j]
           = 1..Len(Val(surfaceData).strikes)
    /\ {Val(surfaceData).strikes[i] : i \in 1..Len(Val(surfaceData).strikes)}
         = {Val(volData)[k].strike : k \in 1..Len(Val(volData))}
    /\ {Val(surfaceData).maturities[j] :
          j \in 1..Len(Val(surfaceData).maturities)}
         = {Val(volData)[k].maturity : k \in 1..Len(Val(volData))}

\* a file with rows in descending order and strikes and maturities that
\* repeat, built into a grid of three strikes and two maturities
C15_Witness ==
  /\ surfaceData # Null
  /\ Len(Val(volData)) = 4
  /\ Val(volData)[1].strike > Val(volData)[4].strike
  /\ Val(volData)[1].maturity > Val(volData)[4].maturity
  /\ Len(Val(surfaceData).strikes) = 3
  /\ Len(Val(surfaceData).maturities) = 2

\* C16: when the interpolator's bracketing indices coincide (i1 = i2 for
\* strikes, j1 = j2 for maturities), the weight (x, y) is 0.
C16_CoincidingIndicesGiveZeroWeight ==
  volQuery # Null =>
    LET c == interpolateVolCell(Val(volQuery).strike, Val(volQuery).maturity,
                                Val(surfaceData))
    IN /\ c.i1 = c.i2 => c.x = 0
       /\ c.j1 = c.j2 => c.y = 0

\* C17: given a portfolio without positions the Greek surface viewer ends in
\* an error, neither the loading text nor a plot.
C17_EmptyPortfolioFails ==
  (gsvProps # Null /\ Len(Val(gsvProps).portfolio.options) = 0)
    => gsvRendered = "error"

\* the first position with its strike and its maturity replaced
C18_Replaced(position, strike, maturity) ==
  [position EXCEPT !.strikePrice = strike, !.timeToExpiry = maturity]

\* axis has 40 strictly increasing values from lo to hi, each at its evenly
\* spaced place up to the rounding of i/39 and of the product
C18_EvenAxis(axis, lo, hi) ==
  /\ DOMAIN axis = 1..40
  /\ axis[1] = lo /\ axis[40] = hi
  /\ \A i \in 1..39 : axis[i] < axis[i + 1]
  /\ \A i \in 1..40 :
       2 * IAbs[39 * axis[i] - (39 * lo + (hi - lo) * (i - 1))]
         <= 39 * ((hi - lo) \div SCALE + 2)

\* C18: the sampled surface has 40 strictly increasing, evenly spaced
\* strikes from spot x 0.7 to spot x 1.3, 40 strictly increasing, evenly
\* spaced maturities from 0.1 to 2.0, and a 40 x 40 table with z[m][k] the
\* selected Greek of the first position with its strike replaced by
\* strikes[k] and its maturity by maturities[m].
C18_SampledSurface ==
  (gsvProps # Null /\ Len(Val(gsvProps).portfolio.options) > 0)
    => /\ greekSurfaceData # Null
       /\ C18_EvenAxis(Val(greekSurfaceData).x,
                       Mul[Val(gsvProps).portfolio.options[1].spotPrice, 700],
                       Mul[Val(gsvProps).portfolio.options[1].spotPrice, 1300])
       /\ C18_EvenAxis(Val(greekSurfaceData).y, 100, Num(2))
       /\ DOMAIN Val(greekSurfaceData).z = 1..40
       /\ \A m \in 1..40 :
            /\ DOMAIN Val(greekSurfaceData).z[m] = 1..40
            /\ \A k \in 1..40 :
                 Val(greekSurfaceData).z[m][k] =
                   sampledMetrics[
                     C18_Replaced(Val(gsvProps).portfolio.options[1],
                                  Val(greekSurfaceData).x[k],
                                  Val(greekSurfaceData).y[m])]
                     .greeks[Val(gsvProps).selectedGreek]

C18_Witness ==
  /\ gsvProps # Null
  /\ Len(Val(gsvProps).portfolio.options) = 2
  /\ Val(gsvProps).selectedGreek = "gamma"
  /\ greekSurfaceData # Null
  /\ Val(greekSurfaceData).x[40] = 143 * SCALE
  /\ Val(greekSurfaceData).y[40] = 2 * SCALE
  /\ Val(greekSurfaceData).z[1][20] # Val(greekSurfaceData).z[1][1]
  /\ Val(greekSurfaceData).z[1][20] # Val(greekSurfaceData).z[40][20]
  /\ \A m \in 1..40 : \A k \in 1..40 :
       IsFinite(Val(greekSurfaceData).z[m][k])

\* ------------------------------------------------------------------------
\* C19: for valid terms (S, K, T, sigma, r), the price of the call minus the
\* price of the put on the same terms equals S - K e^(-rT) within 1e-6
\* ------------------------------------------------------------------------

\* 1e-6
C19_Tolerance == FINE \div 1000000

\* S - K e^(-rT)
C19_Forward(terms) ==
  terms.spotPrice
    - FineMul[terms.strikePrice,
              FineExp[FineMul[-terms.riskFreeRate, terms.timeToExpiry]]]

C19_PutCallParity ==
  quote # Null =>
    IAbs[(Val(quote).call - Val(quote).put) - C19_Forward(Val(quote).terms)]
      <= C19_Tolerance

\* ------------------------------------------------------------------------
\* C20: normalCDF(0) = 0.5; normalCDF is non-decreasing; and
\* normalCDF(x) + normalCDF(-x) = 1 within 1e-6 for every x, 0 included
\* ------------------------------------------------------------------------

C20_AtZero ==
  \A i \in DOMAIN cdfCalls :
    cdfCalls[i].x = 0 => cdfCalls[i].value = FINE \div 2

C20_Monotone ==
  \A i \in DOMAIN cdfCalls : \A j \in DOMAIN cdfCalls :
    cdfCalls[i].x <= cdfCalls[j].x => cdfCalls[i].value <= cdfCalls[j].value

C20_Symmetric ==
  \A i \in DOMAIN cdfCalls : \A j \in DOMAIN cdfCalls :
    cdfCalls[i].x = -cdfCalls[j].x =>
      IAbs[cdfCalls[i].value + cdfCalls[j].value - FINE] <= FINE \div 1000000

C20_NormalCDFContract == C20_AtZero /\ C20_Monotone /\ C20_Symmetric

\* ------------------------------------------------------------------------
\* C21: for an option with S, K, T, sigma > 0, calculateGreeks returns
\* gamma >= 0 and vega >= 0, delta in [0, 1] for a Call and in [-1, 0] for
\* a Put
\* ------------------------------------------------------------------------

C22_Positive(value) == value.t = "number" /\ ~IsNaN(value.n) /\ value.n > 0

C22_Number(value) == value.t = "number" /\ ~IsNaN(value.n)

C22_Acceptable(option) ==
  /\ option.ticker # RawUndefined
  /\ option.type \in {RawString("Call"), RawString("Put")}
  /\ \A f \in {"spotPrice", "strikePrice", "timeToExpiry", "volatility"} :
       C22_Positive(option[f])
  /\ C22_Number(option.riskFreeRate)
  /\ C22_Number(option.quantity)

C22_AcceptableRecordsAreLoaded ==
  (/\ settled # Null
   /\ Val(settled).file.name.ext \in {".csv", ".json"}
   /\ Val(settled).file.content.kind = "rows"
   /\ \A i \in DOMAIN Val(settled).file.content.rows :
        LET row == Val(settled).file.content.rows[i]
        IN DOMAIN row # {} => C22_Acceptable(partialOption(row)))
    => Val(settled).called # Null

\* ------------------------------------------------------------------------
\* C29: a dropped file is loaded whole or not at all.  With a name of
\* neither extension, or a non-empty record that fails validation, the
\* error is set, onPortfolioLoad is not called and the portfolio stays as
\* it was; otherwise onPortfolioLoad gets every non-empty record, each
\* valid; and loading is false once the drop is handled.
\* ------------------------------------------------------------------------

C29_Records(file) ==
  SelectSeq(file.content.rows, LAMBDA row : DOMAIN row # {})

C29_Rejected(file) ==
  \/ file.name.ext \notin {".csv", ".json"}
  \/ file.content.kind # "rows"
  \/ \E k \in DOMAIN C29_Records(file) :
       validateOption(partialOption(C29_Records(file)[k])) # Null

C29_Handled(file, live) ==
  /\ settled' # Null
  /\ Val(settled').file = file
  /\ live => loading' = FALSE
  /\ IF C29_Rejected(file)
       THEN /\ Val(settled').called = Null
            /\ live => uploadError' # Null
            /\ portfolio' = portfolio
            /\ whatIfPortfolio' = whatIfPortfolio
            /\ stressTestResults' = stressTestResults
       ELSE /\ Val(settled').called =
                 Some([k \in DOMAIN C29_Records(file) |->
                         asOption(partialOption(C29_Records(file)[k]))])
            /\ portfolio' # Null
            /\ Len(Val(portfolio').options) = Len(C29_Records(file))

C29_AllOrNothing ==
  [][/\ \A i \in 1..MaxDrops :
          dropSettles(i) => C29_Handled(drops[i].file, drops[i].live)
     /\ \A file \in { f \in UploadFiles :
                          f.name.ext \notin {".csv", ".json"} } :
          fileUploadOnDrop(file) => C29_Handled(file, TRUE)]_vars

\* a file of a valid and an empty record has been loaded as one position, and
\* a file of a valid and an invalid record has been rejected with no
\* portfolio loaded
C29_Witness ==
  /\ settled # Null
  /\ Len(Val(settled).file.content.rows) = 2
  /\ \/ /\ Val(settled).called # Null
        /\ Len(Val(Val(settled).called)) = 1
        /\ portfolio # Null
        /\ Len(Val(portfolio).options) = 1
        /\ ~loading
     \/ /\ Val(settled).called = Null
        /\ validateOption(partialOption(Val(settled).file.content.rows[1]))
             = Null
        /\ validateOption(partialOption(Val(settled).file.content.rows[2]))
             # Null
        /\ Val(settled).file.content.rows[2] # <<>>
        /\ uploadError # Null
        /\ portfolio = Null
        /\ ~loading

\* ------------------------------------------------------------------------
\* C23: for the same S, K, T, sigma, r and option type, and the same normal
\* distribution and density, calculateBlackScholes returns the price of
\* calculateOptionPrice and the five Greeks of calculateGreeks (for a Put:
\* the price K e^(-rT) N(-d2) - S N(-d1) and the delta -N(-d1))
\* ------------------------------------------------------------------------

C23_Option(inputs_) ==
  [ticker |-> "SIM",
   type |-> IF inputs_.isCall THEN "Call" ELSE "Put",
   spotPrice |-> inputs_.stockPrice,
   strikePrice |-> inputs_.strikePrice,
   timeToExpiry |-> inputs_.timeToMaturity,
   volatility |-> inputs_.volatility,
   riskFreeRate |-> inputs_.riskFreeRate,
   quantity |-> Num(1)]

C23_SimulatorAgreesWithEngine ==
  outputs # Null =>
    /\ Val(outputs).optionPrice = calculateOptionPrice(C23_Option(inputs))
    /\ \A greek \in {"delta", "gamma", "theta", "vega", "rho"} :
         Val(outputs)[greek] = calculateGreeks(C23_Option(inputs))[greek]

\* ------------------------------------------------------------------------
\* C28: the simulator's stored inputs always have stockPrice > 0,
\* strikePrice > 0, 0 < timeToMaturity <= 10, 0 < volatility <= 2 and
\* -0.1 <= riskFreeRate <= 0.5, and a change to a number that fails its
\* field's validator (NaN included) leaves the inputs as they were
\* ------------------------------------------------------------------------

C28_InRange ==
  /\ inputs.stockPrice # NaN /\ inputs.stockPrice > 0
  /\ inputs.strikePrice # NaN /\ inputs.strikePrice > 0
  /\ inputs.timeToMaturity # NaN
  /\ inputs.timeToMaturity > 0 /\ inputs.timeToMaturity <= 10 * SCALE
  /\ inputs.volatility # NaN
  /\ inputs.volatility > 0 /\ inputs.volatility <= 2 * SCALE
  /\ inputs.riskFreeRate # NaN
  /\ 10 * inputs.riskFreeRate >= -SCALE /\ 10 * inputs.riskFreeRate <= 5 * SCALE
  /\ inputs.isCall \in BOOLEAN

C28_Invalid(change) ==
  /\ change[2].t = "number"
  /\ ~validateInputs(change[1], change[2].n)

C28_ValidInputs ==
  /\ []C28_InRange
  /\ [][\A change \in SimChanges :
          (handleInputChange(change[1], change[2]) /\ C28_Invalid(change))
            => inputs' = inputs]_vars

\* NaN has been refused after changes that were accepted, the lowest rate
\* allowed among them
C28_Witness ==
  /\ simCall # Null
  /\ Val(simCall).value = numberValue(NaN)
  /\ inputs.riskFreeRate = -100
  /\ inputs.volatility = Num(2)
  /\ ~inputs.isCall

\* ------------------------------------------------------------------------
\* C24: the delivery of a what-if portfolio to Home schedules no further
\* recalculation, so that with the sliders and the base portfolio at rest
\* no timeout stays pending
\* ------------------------------------------------------------------------

C24_DeliverySchedulesNothing ==
  [][whatIfTimeout => timeouts' = {}]_vars

\* ------------------------------------------------------------------------
\* C25: every portfolio delivered through onPortfolioChange is the tuning of
\* the loaded base portfolio by the slider values the timeout was set with,
\* never the tuning of a tuned portfolio
\* ------------------------------------------------------------------------

\* the base portfolio is what was uploaded: no field of a position has been
\* tuned
C25_BaseAsUploaded ==
  portfolio # Null =>
    \A i \in DOMAIN Val(portfolio).options :
      \E contract \in Contracts :
        \A f \in DOMAIN contract : Val(portfolio).options[i][f] = contract[f]

C25_TunedOnce ==
  whatIfPortfolio' =
    Some(calculatePortfolioMetrics(
           [i \in DOMAIN Val(portfolio).options |->
              adjustOption(Val(portfolio).options[i], params)]))

C25_NoCompounding ==
  /\ []C25_BaseAsUploaded
  /\ [][whatIfTimeout => (C25_TunedOnce /\ portfolio' = portfolio)]_vars

\* a what-if portfolio is shown whose volatility has been raised, and a
\* timeout is pending for a further change of the sliders
C25_Witness ==
  /\ portfolio # Null
  /\ whatIfPortfolio # Null
  /\ Len(Val(portfolio).options) > 0
  /\ Val(whatIfPortfolio).options[1].volatility
       = Mul[Val(portfolio).options[1].volatility, 1500]
  /\ params.volatilityMultiplier = 1500
  /\ params.rateShift = Num(5)
  /\ timeouts # {}

\* ------------------------------------------------------------------------
\* C26: at most one recalculation timeout is pending; it is the one for the
\* current sliders and the current base portfolio (a change of either has
\* cancelled the one before), and none is pending once the panel is
\* unmounted
\* ------------------------------------------------------------------------

C26_OnePendingTimeout ==
  /\ Cardinality(timeouts) <= 1
  /\ \A timeout \in timeouts :
       /\ portfolio # Null
       /\ timeout.closure = Closure(params, Val(portfolio))
       /\ debounceTimeout = Some(timeout.id)

\* the sliders have been moved after a delivery, and the one timeout pending
\* is the one for their new positions
C26_Witness ==
  /\ Cardinality(timeouts) = 1
  /\ whatIfPortfolio # Null
  /\ params.timeDecayDays = Num(30)
  /\ params.volatilityMultiplier = 1500
  /\ Val(whatIfPortfolio).options # <<>>
  /\ Val(whatIfPortfolio).options[1].volatility
       = Val(portfolio).options[1].volatility

\* ------------------------------------------------------------------------
\* C27: while a portfolio is displayed, whatIfPortfolio is null or a tuning
\* of that portfolio, and stressTestResults is null or the stress of that
\* portfolio or of a tuning of it: no result of a portfolio uploaded before
\* is shown with the one loaded now
\* ------------------------------------------------------------------------

C27_Tunings ==
  [volatilityMultiplier : TuningValues.volatilityMultiplier,
   timeDecayDays : TuningValues.timeDecayDays,
   rateShift : TuningValues.rateShift]

\* the tunings of the portfolio p
C27_WhatIfs(p) ==
  { calculatePortfolioMetrics(adjustedOptions(p, tp)) : tp \in C27_Tunings }

C27_ShocksOf(results) ==
  [f \in DOMAIN StressParamsInit |-> results[f]]

C27_ResultsOfCurrentPortfolio ==
  portfolio # Null =>
    /\ whatIfPortfolio # Null =>
         Val(whatIfPortfolio) \in C27_WhatIfs(Val(portfolio))
    /\ stressTestResults # Null =>
         \E source \in {Val(portfolio)} \cup C27_WhatIfs(Val(portfolio)) :
           Val(stressTestResults).stressedPortfolio =
             calculatePortfolioMetrics(
               stressedOptions(source, C27_ShocksOf(Val(stressTestResults))))

\* a portfolio of two positions is displayed with a what-if portfolio that
\* has aged it and with the stress result of that what-if portfolio
C27_Witness ==
  /\ portfolio # Null
  /\ Len(Val(portfolio).options) = 2
  /\ whatIfPortfolio # Null
  /\ Val(whatIfPortfolio).options[1].timeToExpiry
       # Val(portfolio).options[1].timeToExpiry
  /\ stressTestResults # Null
  /\ Val(stressTestResults).spotPriceChange = Num(10)
  /\ Val(stressTestResults).stressedPortfolio.options[1].timeToExpiry
       = Val(whatIfPortfolio).options[1].timeToExpiry

\* ------------------------------------------------------------------------
\* C30: for a query within the grid's strikes and maturities, interpolateVol
\* takes bracketing indices at most one apart (strikes[i1] <= strike <=
\* strikes[i2], maturities[j1] <= maturity <= maturities[j2]), weights x and
\* y in [0, 1], and returns a value between the least and the greatest of
\* the four corner volatilities
\* ------------------------------------------------------------------------

C30_InRange ==
  /\ volQuery # Null
  /\ Val(surfaceData).strikes[1] <= Val(volQuery).strike
  /\ Val(volQuery).strike
       <= Val(surfaceData).strikes[Len(Val(surfaceData).strikes)]
  /\ Val(surfaceData).maturities[1] <= Val(volQuery).maturity
  /\ Val(volQuery).maturity
       <= Val(surfaceData).maturities[Len(Val(surfaceData).maturities)]

C30_Cell ==
  interpolateVolCell(Val(volQuery).strike, Val(volQuery).maturity,
                     Val(surfaceData))

C30_Corners ==
  { Val(surfaceData).volatilities[j + 1][i + 1] :
      i \in {C30_Cell.i1, C30_Cell.i2}, j \in {C30_Cell.j1, C30_Cell.j2} }

C30_Bracketed ==
  /\ C30_Cell.i1 <= C30_Cell.i2 /\ C30_Cell.i2 <= C30_Cell.i1 + 1
  /\ C30_Cell.j1 <= C30_Cell.j2 /\ C30_Cell.j2 <= C30_Cell.j1 + 1
  /\ Val(surfaceData).strikes[C30_Cell.i1 + 1] <= Val(volQuery).strike
  /\ Val(volQuery).strike <= Val(surfaceData).strikes[C30_Cell.i2 + 1]
  /\ Val(surfaceData).maturities[C30_Cell.j1 + 1] <= Val(volQuery).maturity
  /\ Val(volQuery).maturity <= Val(surfaceData).maturities[C30_Cell.j2 + 1]
  /\ 0 <= C30_Cell.x /\ C30_Cell.x <= SCALE
  /\ 0 <= C30_Cell.y /\ C30_Cell.y <= SCALE

\* the result is within slack of the range of the corners
C30_Between(slack) ==
  /\ \E least \in C30_Corners : least - slack <= Val(volResult)
  /\ \E greatest \in C30_Corners : Val(volResult) <= greatest + slack

====
